---- MODULE Spec2Model ----
(***************************************************************************)
(* UserOperation simulation and validation core of the bundler's uopool:   *)
(* crates/uopool/src/canonical/simulation.rs and src/uopool/mod.rs.        *)
(*                                                                         *)
(* The module holds one state machine per checker of the pipeline and one  *)
(* for the orchestrator (simulate_user_operation).  All of them share the  *)
(* same variables; a specification that does not run a checker leaves the  *)
(* variables of that checker at their idle values.                         *)
(***************************************************************************)
EXTENDS Integers, Sequences, FiniteSets, TLC

VARIABLES
    userOp,     \* the UserOperation under simulation
    simResp,    \* what EntryPoint.simulate_validation answers for it
    traceResp,  \* what EntryPoint.simulate_validation_trace + try_from give
    trace,      \* the JsTracerFrame the checkers read
    stakeInfo,  \* stake_info_by_entity: [StakeInfo; NUMBER_LEVELS]
    world,      \* the shared capabilities: reputation, mempool, chain
    pc,         \* position of the running function
    loc,        \* local variables of the running function
    result,     \* what the running function returned (None while running)
    log         \* external calls issued so far, oldest first

vars == <<userOp, simResp, traceResp, trace, stakeInfo, world, pc, loc, result, log>>

-----------------------------------------------------------------------------
(* Values shared by every checker.                                         *)

\* const NUMBER_LEVELS: usize = 3
NUMBER_LEVELS == 3

\* const LEVEL_TO_ENTITY; indices are 0-based in the source, index i is at i+1
LEVEL_TO_ENTITY == <<"factory", "account", "paymaster">>

\* LEVEL_TO_ENTITY[index] for a 0-based index
EntityName(index) == LEVEL_TO_ENTITY[index + 1]

\* trace.number_levels.get(index) is Some for a 0-based index
HasLevel(tr, index) == index < Len(tr.number_levels)

\* trace.number_levels.get(index).unwrap() for a 0-based index
Level(tr, index) == tr.number_levels[index + 1]

\* A string that is a slot key or a field of an error.  k = "hex": hex digits
\* of the number v; k = "addr": the Display form of an address whose
\* first and last two bytes are v; k = "bad": any other text; k = "empty": "".
EmptyString == [k |-> "empty", v |-> 0]

\* No value in a field that holds nothing yet
None == [kind |-> "None"]

\* The variants of SimulateValidationError, and Ok(())
Ok == [kind |-> "Ok", entity |-> "", opcode |-> "", slot |-> EmptyString, message |-> ""]

SignatureValidationErr ==
    [kind |-> "SignatureValidation", entity |-> "", opcode |-> "",
     slot |-> EmptyString, message |-> ""]

UserOperationRejected(msg) ==
    [kind |-> "UserOperationRejected", entity |-> "", opcode |-> "",
     slot |-> EmptyString, message |-> msg]

OpcodeValidation(ent, op) ==
    [kind |-> "OpcodeValidation", entity |-> ent, opcode |-> op,
     slot |-> EmptyString, message |-> ""]

StorageAccessValidation(s) ==
    [kind |-> "StorageAccessValidation", entity |-> "", opcode |-> "",
     slot |-> s, message |-> ""]

CallStackValidation(msg) ==
    [kind |-> "CallStackValidation", entity |-> "", opcode |-> "",
     slot |-> EmptyString, message |-> msg]

CodeHashesValidation(msg) ==
    [kind |-> "CodeHashesValidation", entity |-> "", opcode |-> "",
     slot |-> EmptyString, message |-> msg]

UnknownError(msg) ==
    [kind |-> "UnknownError", entity |-> "", opcode |-> "",
     slot |-> EmptyString, message |-> msg]

\* SimulateValidationError::UserOperationExecution { message }
UserOperationExecution(msg) ==
    [kind |-> "UserOperationExecution", entity |-> "", opcode |-> "",
     slot |-> EmptyString, message |-> msg]

\* The codes of the JSON-RPC errors, by the names the source gives them
SIGNATURE_FAILED_ERROR_CODE == "SIGNATURE_FAILED_ERROR_CODE"
SIMULATE_VALIDATION_ERROR_CODE == "SIMULATE_VALIDATION_ERROR_CODE"
OPCODE_VALIDATION_ERROR_CODE == "OPCODE_VALIDATION_ERROR_CODE"
EXECUTION_ERROR_CODE == "EXECUTION_ERROR_CODE"
InternalErrorCode == "ErrorCode::InternalError"

\* SimulationError::owned(code, message, None::<bool>)
SimulationErrorOwned(code, message) ==
    [kind |-> "SimulationError", code |-> code, message |-> message]

\* A variant of the conversion that reports a refused storage access under
\* the code of a rejected operation
SimulationErrorFromStorageAsRejected(error) ==
    IF error.kind = "StorageAccessValidation"
    THEN SimulationErrorOwned(SIMULATE_VALIDATION_ERROR_CODE,
             <<"Storage access validation failed for slot: ", error.slot>>)
    ELSE IF error.kind \in {"OpcodeValidation", "CallStackValidation", "CodeHashesValidation"}
    THEN SimulationErrorOwned(OPCODE_VALIDATION_ERROR_CODE, <<error.message>>)
    ELSE IF error.kind = "SignatureValidation"
    THEN SimulationErrorOwned(SIGNATURE_FAILED_ERROR_CODE, <<error.message>>)
    ELSE IF error.kind = "UserOperationRejected"
    THEN SimulationErrorOwned(SIMULATE_VALIDATION_ERROR_CODE, <<error.message>>)
    ELSE IF error.kind = "UserOperationExecution"
    THEN SimulationErrorOwned(EXECUTION_ERROR_CODE, <<error.message>>)
    ELSE SimulationErrorOwned(InternalErrorCode, <<error.message>>)

\* impl From<SimulateValidationError> for SimulationError: the arms of the
\* match in their order; a message is the sequence of the pieces format!
\* puts together
SimulationErrorFrom(error) ==
    CASE error.kind = "SignatureValidation" ->
            SimulationErrorOwned(SIGNATURE_FAILED_ERROR_CODE,
                <<"Invalid UserOp signature or paymaster signature">>)
      [] error.kind = "UserOperationRejected" ->
            SimulationErrorOwned(SIMULATE_VALIDATION_ERROR_CODE, <<error.message>>)
      [] error.kind = "OpcodeValidation" ->
            SimulationErrorOwned(OPCODE_VALIDATION_ERROR_CODE,
                <<error.entity, " uses banned opcode: ", error.opcode>>)
      [] error.kind = "UserOperationExecution" ->
            SimulationErrorOwned(EXECUTION_ERROR_CODE, <<error.message>>)
      [] error.kind = "StorageAccessValidation" ->
            SimulationErrorOwned(OPCODE_VALIDATION_ERROR_CODE,
                <<"Storage access validation failed for slot: ", error.slot>>)
      [] error.kind = "CallStackValidation" ->
            SimulationErrorOwned(OPCODE_VALIDATION_ERROR_CODE, <<error.message>>)
      [] error.kind = "CodeHashesValidation" ->
            SimulationErrorOwned(OPCODE_VALIDATION_ERROR_CODE, <<error.message>>)
      [] error.kind = "UnknownError" ->
            SimulationErrorOwned(InternalErrorCode, <<error.message>>)

\* An entry of the log: a step of simulate_user_operation that has begun, or
\* a call of a capability (arg is the address of a get_code, 0 otherwise)
LogEntry(op, arg) == [op |-> op, arg |-> arg]
Began(step) == LogEntry(step, 0)
Called(op) == LogEntry(op, 0)

\* Idle values of the variables a specification does not use
IdleUserOp == [sender |-> 0, init_code |-> [len |-> 0, head |-> 0],
               paymaster_and_data |-> [len |-> 0, head |-> 0], hash |-> 0]
IdleTrace == [number_levels |-> <<>>, keccak |-> <<>>, calls |-> <<>>]
IdleStake == [address |-> 0, stake |-> 0, unstake_delay |-> 0]
IdleStakeInfo == <<IdleStake, IdleStake, IdleStake>>

-----------------------------------------------------------------------------
(* EntryPointClient and SignatureGate: simulate_validation, signature,     *)
(* simulate_validation_trace and the conversion to JsTracerFrame.          *)

\* A variant of the mapping that reports an EntryPointErr other than FailedOp
\* as an internal error
EntryPointErrorAsInternal(resp) ==
    IF resp.kind = "FailedOp"
    THEN UserOperationRejected(resp.message)
    ELSE UnknownError("unknown error")

\* The error an EntryPoint call maps its failure to: the message of a
\* FailedOp, "unknown error" for any other EntryPointErr
EntryPointError(resp) ==
    IF resp.kind = "FailedOp"
    THEN UserOperationRejected(resp.message)
    ELSE UserOperationRejected("unknown error")

\* simulate_user_operation at self.simulate_validation(user_operation).await?
SimulateValidation ==
    /\ pc = "simulate_validation"
    /\ log' = Append(log, Began("simulate_validation"))
    /\ IF simResp.kind = "Ok"
       THEN pc' = "signature" /\ result' = result
       ELSE pc' = "done" /\ result' = EntryPointError(simResp)
    /\ UNCHANGED <<userOp, simResp, traceResp, trace, stakeInfo, world, loc>>

\* A variant of the signature gate that reads the flag of the plain result
\* only
SignatureCheckPlainOnly(res) ==
    res.variant = "ValidationResult" /\ res.return_info.sig_failed

\* let signature_check = match simulate_validation_result { ..return_info.2 }
SignatureCheck(res) ==
    IF res.variant = "ValidationResult"
    THEN res.return_info.sig_failed
    ELSE res.return_info.sig_failed

\* fn signature
SignatureResult(res) == IF SignatureCheck(res) THEN SignatureValidationErr ELSE Ok

\* A variant of the step without the `?`: a failed gate is recorded and the
\* function goes on to the trace request
SignatureWithoutBarrier ==
    /\ pc = "signature"
    /\ log' = Append(log, Began("signature"))
    /\ pc' = "simulate_validation_trace"
    /\ result' = IF SignatureResult(simResp.result) = Ok
                 THEN result
                 ELSE SignatureResult(simResp.result)
    /\ UNCHANGED <<userOp, simResp, traceResp, trace, stakeInfo, world, loc>>

\* simulate_user_operation at self.signature(&simulate_validation_result)?
Signature ==
    /\ pc = "signature"
    /\ log' = Append(log, Began("signature"))
    /\ IF SignatureResult(simResp.result) = Ok
       THEN pc' = "simulate_validation_trace" /\ result' = result
       ELSE pc' = "done" /\ result' = SignatureResult(simResp.result)
    /\ UNCHANGED <<userOp, simResp, traceResp, trace, stakeInfo, world, loc>>

\* simulate_user_operation at self.simulate_validation_trace(..).await? and at
\* JsTracerFrame::try_from(geth_trace).map_err(..)?
SimulateValidationTrace ==
    /\ pc = "simulate_validation_trace"
    /\ log' = Append(log, Began("simulate_validation_trace"))
    /\ IF traceResp.kind = "Ok"
       THEN IF traceResp.parses
            THEN pc' = "extract_stake_info" /\ result' = result /\ trace' = traceResp.frame
            ELSE pc' = "done" /\ result' = UserOperationRejected("trace error")
                 /\ trace' = trace
       ELSE pc' = "done" /\ result' = EntryPointError(traceResp) /\ trace' = trace
    /\ UNCHANGED <<userOp, simResp, traceResp, stakeInfo, world, loc>>

-----------------------------------------------------------------------------
(* ForbiddenOpcodeChecker: forbidden_opcodes.                              *)

FORBIDDEN_OPCODES ==
    {"GASPRICE", "GASLIMIT", "DIFFICULTY", "TIMESTAMP", "BASEFEE", "BLOCKHASH",
     "NUMBER", "SELFBALANCE", "BALANCE", "ORIGIN", "GAS", "CREATE", "COINBASE",
     "SELFDESTRUCT", "RANDOM", "PREVRANDAO"}

CREATE2_OPCODE == "CREATE2"

\* A level without opcodes, accesses or contracts
EmptyOpcodes == [o \in {} |-> 0]

\* level.opcodes.get(CREATE2) is Some(count)
HasCreate2(tr, index) ==
    HasLevel(tr, index) /\ CREATE2_OPCODE \in DOMAIN Level(tr, index).opcodes

\* A variant of the CREATE2 rule that accepts any count at the factory
Create2AllowedAnyCount(index, count) == EntityName(index) = "factory"

\* LEVEL_TO_ENTITY[index] == "factory" && *count == 1
Create2Allowed(index, count) == EntityName(index) = "factory" /\ count = 1

\* A banned set that misses TIMESTAMP
BannedWithoutTimestamp(op) == op \in FORBIDDEN_OPCODES \ {"TIMESTAMP"}

\* FORBIDDEN_OPCODES.contains(opcode)
IsForbidden(op) == op \in FORBIDDEN_OPCODES

\* A variant of the loop that applies the CREATE2 rule of a level before it
\* looks for the banned opcodes of the level
RECURSIVE ForbiddenFromCreate2First(_, _)
ForbiddenFromCreate2First(tr, index) ==
    IF index >= NUMBER_LEVELS THEN {Ok}
    ELSE LET banned == IF HasLevel(tr, index)
                       THEN {o \in DOMAIN Level(tr, index).opcodes : IsForbidden(o)}
                       ELSE {}
         IN  IF HasCreate2(tr, index)
                 /\ ~Create2Allowed(index, Level(tr, index).opcodes[CREATE2_OPCODE])
             THEN {OpcodeValidation(EntityName(index), CREATE2_OPCODE)}
             ELSE IF banned # {}
             THEN {OpcodeValidation(EntityName(index), o) : o \in banned}
             ELSE ForbiddenFromCreate2First(tr, index + 1)

\* The results forbidden_opcodes can return when its loop is at `index`.
\* The first loop walks a HashMap, so any banned key can be the one it meets
\* first; everything else is determined.
RECURSIVE ForbiddenFrom(_, _)
ForbiddenFrom(tr, index) ==
    IF index >= NUMBER_LEVELS THEN {Ok}
    ELSE LET banned == IF HasLevel(tr, index)
                       THEN {o \in DOMAIN Level(tr, index).opcodes : IsForbidden(o)}
                       ELSE {}
         IN  IF banned # {}
             THEN {OpcodeValidation(EntityName(index), o) : o \in banned}
             ELSE IF HasCreate2(tr, index)
                  THEN IF Create2Allowed(index, Level(tr, index).opcodes[CREATE2_OPCODE])
                       THEN ForbiddenFrom(tr, index + 1)
                       ELSE {OpcodeValidation(EntityName(index), CREATE2_OPCODE)}
                  ELSE ForbiddenFrom(tr, index + 1)

\* fn forbidden_opcodes(&self, trace)
ForbiddenOpcodesResults(tr) == ForbiddenFrom(tr, 0)

\* A variant of the step without the `?`: the error of forbidden_opcodes is
\* kept and storage_access runs all the same
ForbiddenOpcodesDeferred ==
    /\ pc = "forbidden_opcodes"
    /\ \E r \in ForbiddenOpcodesResults(trace) :
        /\ pc' = "storage_access"
        /\ result' = IF r = Ok THEN result ELSE r
    /\ log' = Append(log, Began("forbidden_opcodes"))
    /\ UNCHANGED <<userOp, simResp, traceResp, trace, stakeInfo, world, loc>>

\* simulate_user_operation at self.forbidden_opcodes(&js_trace)?: an error is
\* returned, Ok(()) hands over to storage_access
ForbiddenOpcodes ==
    /\ pc = "forbidden_opcodes"
    /\ \E r \in ForbiddenOpcodesResults(trace) :
        IF r = Ok
        THEN pc' = "storage_access" /\ result' = result
        ELSE pc' = "done" /\ result' = r
    /\ log' = Append(log, Began("forbidden_opcodes"))
    /\ UNCHANGED <<userOp, simResp, traceResp, trace, stakeInfo, world, loc>>

-----------------------------------------------------------------------------
(* SlotAssociator and StorageAccessChecker: parse_slots,                   *)
(* associated_with_slot, storage_access.                                   *)

\* self.entry_point.address()
EntryPointAddr == 1

\* Address::zero()
ZeroAddress == 0

\* Number of distinct (first two bytes, last two bytes) pairs of an address
AddrEndsCount == 6

\* address.to_string(): the Display form of an address keeps its first and
\* last two bytes only ("0x1234...5678"), so addresses that differ in the
\* middle have the same string.  An address a stands for the bytes whose
\* ends are a % AddrEndsCount and whose middle is a \div AddrEndsCount.
AddrToString(a) == [k |-> "addr", v |-> a % AddrEndsCount]

\* The text of the number n in hex digits
HexString(n) == [k |-> "hex", v |-> n]

\* Some text that holds a character that is no hex digit
BadString == [k |-> "bad", v |-> 0]

\* U256::from_str_radix(slot, 16) is Ok: hex digits parse, and so does the
\* empty string (to 0); the Display form of an address and other text do not
Parseable(s) == s.k \in {"hex", "empty"}

\* The value of U256::from_str_radix(slot, 16) when it is Ok
SlotAsNumber(s) == IF s.k = "hex" THEN s.v ELSE 0

\* Width of the association window: slot_entity_as_number + 128
SLOT_WINDOW == 128

\* Distance between the hashes of two different preimages of the model
HashGap == 1000

\* Number of different tails a preimage that starts with a padded address has
MaxRest == 2

\* keccak256(kecc): a preimage is [pad, rest], the bytes 12 zeros ++ address
\* `pad` ++ tail number `rest`; different preimages have different hashes,
\* more than a window apart and at least a window below 2^256
Keccak256(p) == (p.pad * MaxRest + p.rest + 1) * HashGap

\* kecc.starts_with(12 zero bytes ++ entity.address)
StartsWithPadded(p, a) == p.pad = a

\* A variant of the keys that does not skip the zero address of an absent
\* entity
EntityKeysWithZero(keccak, stake_info_by_entity) ==
    {stake_info_by_entity[i].address : i \in
        {i \in 1..NUMBER_LEVELS :
            \E j \in 1..Len(keccak) :
                StartsWithPadded(keccak[j], stake_info_by_entity[i].address)}}

\* The keys parse_slots gives slots_by_entity: the non-zero entity addresses
\* some preimage starts with
EntityKeys(keccak, stake_info_by_entity) ==
    {stake_info_by_entity[i].address : i \in
        {i \in 1..NUMBER_LEVELS :
            /\ stake_info_by_entity[i].address # ZeroAddress
            /\ \E j \in 1..Len(keccak) :
                StartsWithPadded(keccak[j], stake_info_by_entity[i].address)}}

\* fn parse_slots: slots_by_entity after the call
ParseSlots(keccak, stake_info_by_entity) ==
    [a \in EntityKeys(keccak, stake_info_by_entity) |->
        {Keccak256(keccak[j]) : j \in {j \in 1..Len(keccak) : StartsWithPadded(keccak[j], a)}}]

\* slot_as_number >= slot_entity_as_number
\*   && slot_as_number < slot_entity_as_number + 128
InWindow(n, slot_entity) == n >= slot_entity /\ n < slot_entity + SLOT_WINDOW

\* A variant of associated_with_slot that treats a parse failure as Ok(false)
AssociatedParseLenient(address, slot, slots_by_entity) ==
    IF slot = AddrToString(address) THEN "true"
    ELSE IF address \notin DOMAIN slots_by_entity THEN "false"
    ELSE IF ~Parseable(slot) THEN "false"
    ELSE IF \E se \in slots_by_entity[address] : InWindow(SlotAsNumber(slot), se)
         THEN "true" ELSE "false"

\* fn associated_with_slot: "true" for Ok(true), "false" for Ok(false),
\* "err" for Err(StorageAccessValidation{slot})
AssociatedWithSlot(address, slot, slots_by_entity) ==
    IF slot = AddrToString(address) THEN "true"
    ELSE IF address \notin DOMAIN slots_by_entity THEN "false"
    ELSE IF ~Parseable(slot) THEN "err"
    ELSE IF \E se \in slots_by_entity[address] : InWindow(SlotAsNumber(slot), se)
         THEN "true" ELSE "false"

\* The numbers of a U256 in the model are 0..UintLimit - 1: UintLimit stands
\* for 2^256
UintLimit == 65536

\* slot_as_number >= slot_entity_as_number holds and the sum
\* slot_entity_as_number + 128 of the right operand does not fit a U256: the
\* `+` of U256 panics on overflow
WindowOverflows(n, slot_entity) ==
    n >= slot_entity /\ slot_entity + SLOT_WINDOW >= UintLimit

\* fn associated_with_slot over the whole range of U256: the outcomes of the
\* walk over the HashSet of the address, which stops at the first entry whose
\* window holds the slot and panics at the first whose sum overflows,
\* whichever of them the set gives first; without such an entry the outcome
\* is the one of AssociatedWithSlot
AssociatedWithSlotOutcomes(address, slot, slots_by_entity) ==
    LET reached == /\ slot # AddrToString(address)
                   /\ address \in DOMAIN slots_by_entity
                   /\ Parseable(slot)
        booms == IF reached
                 THEN {se \in slots_by_entity[address] :
                          WindowOverflows(SlotAsNumber(slot), se)}
                 ELSE {}
        hits == IF reached
                THEN {se \in slots_by_entity[address] \ booms :
                         InWindow(SlotAsNumber(slot), se)}
                ELSE {}
    IN  IF booms = {}
        THEN {AssociatedWithSlot(address, slot, slots_by_entity)}
        ELSE {"panic"} \cup (IF hits # {} THEN {"true"} ELSE {})

\* if !slot_staked.is_empty() && stake_info.stake.is_zero() { return Err }
StakeCheck(slot_staked, stake) ==
    IF slot_staked # EmptyString /\ stake = 0
    THEN StorageAccessValidation(slot_staked)
    ELSE Ok

\* A variant of the slot rules that sends a sender-associated slot to the
\* stake post-check whatever init_code is
ExamineSlotAlwaysStaked(uo, stake_info, address, slot, slots_by_entity) ==
    LET bySender == AssociatedWithSlot(uo.sender, slot, slots_by_entity)
        byEntity == AssociatedWithSlot(stake_info.address, slot, slots_by_entity)
    IN  IF bySender = "err" THEN StorageAccessValidation(slot)
        ELSE IF bySender = "true" THEN StakeCheck(slot, stake_info.stake)
        ELSE IF address = stake_info.address THEN StakeCheck(slot, stake_info.stake)
        ELSE IF byEntity = "err" THEN StorageAccessValidation(slot)
        ELSE IF byEntity = "true" THEN StakeCheck(slot, stake_info.stake)
        ELSE StorageAccessValidation(slot)

\* The body of the slot loop of storage_access for one slot of one address of
\* the level of `stake_info`: Ok when the loop goes on to the next slot, the
\* error when it returns
ExamineSlot(uo, stake_info, address, slot, slots_by_entity) ==
    LET bySender == AssociatedWithSlot(uo.sender, slot, slots_by_entity)
        byEntity == AssociatedWithSlot(stake_info.address, slot, slots_by_entity)
    IN  IF bySender = "err" THEN StorageAccessValidation(slot)
        ELSE IF bySender = "true"
             THEN IF uo.init_code.len > 0 THEN StakeCheck(slot, stake_info.stake) ELSE Ok
        ELSE IF address = stake_info.address THEN StakeCheck(slot, stake_info.stake)
        ELSE IF byEntity = "err" THEN StorageAccessValidation(slot)
        ELSE IF byEntity = "true" THEN StakeCheck(slot, stake_info.stake)
        ELSE StorageAccessValidation(slot)

\* *address == user_operation.sender || *address == self.entry_point.address()
SkippedAddress(uo, address) == address = uo.sender \/ address = EntryPointAddr

\* The first level at or after `index` (0-based) that exists and has an
\* address to visit; NUMBER_LEVELS when the outer loop is over
RECURSIVE NextLevelFrom(_, _)
NextLevelFrom(tr, index) ==
    IF index >= NUMBER_LEVELS THEN NUMBER_LEVELS
    ELSE IF HasLevel(tr, index) /\ DOMAIN Level(tr, index).access # {} THEN index
    ELSE NextLevelFrom(tr, index + 1)

\* The locals of storage_access when the loops stand at the first address of
\* level `index`
SaAtLevel(l, tr, index) ==
    [l EXCEPT !.index = index, !.addrs = DOMAIN Level(tr, index).access,
              !.cur = ZeroAddress, !.reads = {}, !.writes = {}]

\* for slot in [reads.keys(), writes.keys()].concat(): the slots the loop can
\* take next, the keys of reads (in any order) before the keys of writes
SaNextSlots(l) == IF l.reads # {} THEN l.reads ELSE l.writes

\* storage_access starts: parse_slots fills slots_by_entity and the loops
\* move to the first level that has an address.  Ok(()) hands over to
\* call_stack, the next step of simulate_user_operation
SaBegin ==
    /\ pc = "storage_access"
    /\ LET l0 == [slots_by_entity |-> ParseSlots(trace.keccak, stakeInfo),
                  index |-> 0, addrs |-> {},
                  cur |-> ZeroAddress, reads |-> {}, writes |-> {},
                  last |-> None]
           j == NextLevelFrom(trace, 0)
       IN  IF j >= NUMBER_LEVELS
           THEN /\ pc' = "call_stack"
                /\ result' = result
                /\ loc' = [l0 EXCEPT !.index = j]
           ELSE /\ pc' = "sa_address"
                /\ result' = result
                /\ loc' = SaAtLevel(l0, trace, j)
    /\ log' = Append(log, Began("storage_access"))
    /\ UNCHANGED <<userOp, simResp, traceResp, trace, stakeInfo, world>>

\* The loops after the last slot of an address: the next address of the
\* level, the next level that has one, or Ok(()) after the last level
SaAfterAddress(l) ==
    IF l.addrs # {}
    THEN /\ pc' = "sa_address"
         /\ result' = result
         /\ loc' = l
    ELSE LET j == NextLevelFrom(trace, l.index + 1)
         IN  IF j >= NUMBER_LEVELS
             THEN /\ pc' = "call_stack"
                  /\ result' = result
                  /\ loc' = [l EXCEPT !.index = j]
             ELSE /\ pc' = "sa_address"
                  /\ result' = result
                  /\ loc' = SaAtLevel(l, trace, j)

\* for (address, access) in &level.access: the map is a HashMap, so any
\* address not yet visited can come next; the sender and the EntryPoint are
\* skipped
SaVisit ==
    /\ pc = "sa_address"
    /\ \E a \in loc.addrs :
        LET access == Level(trace, loc.index).access[a]
            l1 == [loc EXCEPT !.addrs = loc.addrs \ {a}]
        IN  IF SkippedAddress(userOp, a) \/ (access.reads = {} /\ access.writes = {})
            THEN SaAfterAddress(l1)
            ELSE /\ pc' = "sa_slot"
                 /\ result' = result
                 /\ loc' = [l1 EXCEPT !.cur = a, !.reads = access.reads,
                                      !.writes = access.writes]
    /\ UNCHANGED <<userOp, simResp, traceResp, trace, stakeInfo, world, log>>

\* One turn of the slot loop: the rules are applied to the next slot; an
\* error ends storage_access and, through `?`, simulate_user_operation;
\* anything else moves the loops on
SaSlot ==
    /\ pc = "sa_slot"
    /\ \E s \in SaNextSlots(loc) :
        LET stake_info == stakeInfo[loc.index + 1]
            out == ExamineSlot(userOp, stake_info, loc.cur, s, loc.slots_by_entity)
            l1 == [loc EXCEPT
                     !.reads = IF loc.reads # {} THEN loc.reads \ {s} ELSE {},
                     !.writes = IF loc.reads # {} THEN loc.writes ELSE loc.writes \ {s},
                     !.last = [index |-> loc.index, address |-> loc.cur,
                               slot |-> s, out |-> out]]
        IN  IF out # Ok
            THEN /\ pc' = "done"
                 /\ result' = out
                 /\ loc' = l1
            ELSE IF l1.reads # {} \/ l1.writes # {}
                 THEN /\ pc' = "sa_slot"
                      /\ result' = result
                      /\ loc' = l1
                 ELSE SaAfterAddress(l1)
    /\ UNCHANGED <<userOp, simResp, traceResp, trace, stakeInfo, world, log>>

-----------------------------------------------------------------------------
(* CallStackReducer and CallStackChecker: parse_call_stack, call_stack.    *)

RETURN_OPCODE == "RETURN"
REVERT_OPCODE == "REVERT"
CREATE_OPCODE == "CREATE"
PAYMASTER_VALIDATION_FUNCTION == "validatePaymasterUserOp"

\* Option::None of a field that holds text or bytes, and of an address
Absent == "absent"
AbsentAddr == -1

\* top.typ.contains("CREATE"), over the frame types of a trace
ContainsCreate(typ) == typ \in {"CREATE", "CREATE2"}

\* CONTRACTS_FUNCTIONS.get(method).cloned(): the name of a known 4-byte
\* selector, None for any other
ContractsFunctions(selector) ==
    IF selector = "0xf465c77e" THEN PAYMASTER_VALIDATION_FUNCTION
    ELSE IF selector = "0x3a871cdd" THEN "validateUserOp"
    ELSE Absent

\* let method = if let Some(method) = top.method { table lookup } else { None }
MethodOf(top) == IF top.method = Absent THEN Absent ELSE ContractsFunctions(top.method)

\* A variant of the entry that keeps the method and the value of a CREATE
\* frame and the value of a frame that returned
ClosedEntryKeepingValue(top, call) ==
    IF call.typ = REVERT_OPCODE
    THEN [typ |-> top.typ, from |-> top.from, to |-> top.to,
          method |-> MethodOf(top), ret |-> Absent, rev |-> call.data,
          value |-> top.value]
    ELSE [typ |-> top.typ, from |-> top.from, to |-> top.to,
          method |-> MethodOf(top), ret |-> call.data, rev |-> Absent,
          value |-> top.value]

\* The CallEntry pushed when `call` (a RETURN or REVERT) closes the frame top
ClosedEntry(top, call) ==
    IF ContainsCreate(top.typ)
    THEN [typ |-> top.typ, from |-> top.from, to |-> top.to, method |-> Absent,
          ret |-> Absent, rev |-> Absent, value |-> Absent]
    ELSE IF call.typ = REVERT_OPCODE
         THEN [typ |-> top.typ, from |-> top.from, to |-> top.to,
               method |-> MethodOf(top), ret |-> Absent, rev |-> call.data,
               value |-> top.value]
         ELSE [typ |-> top.typ, from |-> top.from, to |-> top.to,
               method |-> MethodOf(top), ret |-> call.data, rev |-> Absent,
               value |-> Absent]

\* A variant of the turn that looks at the reputation of the pool: a closed
\* frame is emitted only while verify_stake answers Ok
ReduceStepPoolDependent(st, call) ==
    IF call.typ = REVERT_OPCODE \/ call.typ = RETURN_OPCODE
    THEN IF Len(st.stack) = 0
         THEN st
         ELSE [stack |-> SubSeq(st.stack, 1, Len(st.stack) - 1),
               calls |-> IF world.verify_stake_ok
                         THEN Append(st.calls, ClosedEntry(st.stack[Len(st.stack)], call))
                         ELSE st.calls]
    ELSE [stack |-> Append(st.stack, call), calls |-> st.calls]

\* A variant of the turn that emits an entry for a RETURN or REVERT it meets
\* on an empty stack
ReduceStepEmittingOnEmpty(st, call) ==
    IF call.typ = REVERT_OPCODE \/ call.typ = RETURN_OPCODE
    THEN IF Len(st.stack) = 0
         THEN [stack |-> st.stack, calls |-> Append(st.calls, ClosedEntry(call, call))]
         ELSE [stack |-> SubSeq(st.stack, 1, Len(st.stack) - 1),
               calls |-> Append(st.calls, ClosedEntry(st.stack[Len(st.stack)], call))]
    ELSE [stack |-> Append(st.stack, call), calls |-> st.calls]

\* A variant of the turn that closes the oldest open frame instead of the
\* newest
ReduceStepOldestFirst(st, call) ==
    IF call.typ = REVERT_OPCODE \/ call.typ = RETURN_OPCODE
    THEN IF Len(st.stack) = 0
         THEN st
         ELSE [stack |-> Tail(st.stack),
               calls |-> Append(st.calls, ClosedEntry(Head(st.stack), call))]
    ELSE [stack |-> Append(st.stack, call), calls |-> st.calls]

\* One turn of the loop of parse_call_stack over st = [stack, calls]
ReduceStep(st, call) ==
    IF call.typ = REVERT_OPCODE \/ call.typ = RETURN_OPCODE
    THEN IF Len(st.stack) = 0
         THEN st
         ELSE [stack |-> SubSeq(st.stack, 1, Len(st.stack) - 1),
               calls |-> Append(st.calls, ClosedEntry(st.stack[Len(st.stack)], call))]
    ELSE [stack |-> Append(st.stack, call), calls |-> st.calls]

\* The state of parse_call_stack after the first n events
RECURSIVE ReduceUpTo(_, _)
ReduceUpTo(events, n) ==
    IF n = 0 THEN [stack |-> <<>>, calls |-> <<>>]
    ELSE ReduceStep(ReduceUpTo(events, n - 1), events[n])

\* fn parse_call_stack: `calls` after the call (it never fails)
ParseCallStack(tr) == ReduceUpTo(tr.calls, Len(tr.calls)).calls

\* The closure of calls.iter().find(..): the entry is a call of
\* validatePaymasterUserOp to the address of stake_info
IsPaymasterValidation(call, stake_info) ==
    call.method = PAYMASTER_VALIDATION_FUNCTION /\ call.to = stake_info.address

\* A variant of find that returns the last matching entry
FindLastCall(calls, stake_info) ==
    LET hits == {i \in 1..Len(calls) : IsPaymasterValidation(calls[i], stake_info)}
    IN  IF hits = {} THEN 0 ELSE CHOOSE i \in hits : \A j \in hits : j <= i

\* A variant of find that passes over the matching entries that reverted or
\* returned an empty context
FindReturningCall(calls, stake_info) ==
    LET hits == {i \in 1..Len(calls) :
                    /\ IsPaymasterValidation(calls[i], stake_info)
                    /\ calls[i].ret \notin {Absent, "context_empty"}}
    IN  IF hits = {} THEN 0 ELSE CHOOSE i \in hits : \A j \in hits : i <= j

\* calls.iter().find(..): the index of the first matching entry, 0 for None
FindCall(calls, stake_info) ==
    LET hits == {i \in 1..Len(calls) : IsPaymasterValidation(calls[i], stake_info)}
    IN  IF hits = {} THEN 0 ELSE CHOOSE i \in hits : \A j \in hits : i <= j

\* AbiDecode::decode(ret) of ValidatePaymasterUserOpReturn: the bytes of a
\* return value stand for what decoding them gives
DecodeFails(ret) == ret = "undecodable"
ContextIsEmpty(ret) == ret = "context_empty"

\* !context.is_empty(): the left operand of the && that guards verify_stake
NeedsStake(ret) == ~ContextIsEmpty(ret)

\* fn call_stack: outcome [res, verified]: the value returned and whether
\* reputation.verify_stake("paymaster", ..) was called
CallStackOutcome(stake_info_by_entity, tr, verify_stake_ok) ==
    LET calls == ParseCallStack(tr)
        stake_info == stake_info_by_entity[NUMBER_LEVELS]
        i == FindCall(calls, stake_info)
    IN  IF i = 0 \/ calls[i].ret = Absent
        THEN [res |-> Ok, verified |-> FALSE]
        ELSE IF DecodeFails(calls[i].ret)
        THEN [res |-> UserOperationRejected("unknown error"), verified |-> FALSE]
        ELSE IF ~NeedsStake(calls[i].ret)
        THEN [res |-> Ok, verified |-> FALSE]
        ELSE IF ~verify_stake_ok
        THEN [res |-> CallStackValidation(
                        "Paymaster that is not staked should not return context"),
              verified |-> TRUE]
        ELSE [res |-> Ok, verified |-> TRUE]

\* simulate_user_operation at self.call_stack(..)?: an error is returned,
\* Ok(()) hands over to code_hashes
CallStack ==
    /\ pc = "call_stack"
    /\ LET out == CallStackOutcome(stakeInfo, trace, world.verify_stake_ok)
       IN  /\ log' = IF out.verified
                    THEN log \o <<Began("call_stack"), Called("verify_stake")>>
                    ELSE Append(log, Began("call_stack"))
           /\ loc' = [calls |-> ParseCallStack(trace)]
           /\ IF out.res = Ok
              THEN pc' = "code_hashes" /\ result' = result
              ELSE pc' = "done" /\ result' = out.res
    /\ UNCHANGED <<userOp, simResp, traceResp, trace, stakeInfo, world>>

-----------------------------------------------------------------------------
(* StakeExtractor: extract_stake_info.                                     *)

\* Length in bytes of an address at the head of init_code, paymaster_and_data
ADDRESS_LEN == 20

\* if bytes.len() >= 20 { Address::from_slice(&bytes[0..20]) } else { zero }
HeadAddress(bytes) == IF bytes.len >= ADDRESS_LEN THEN bytes.head ELSE ZeroAddress

\* fn extract_stake_info: stake_info_by_entity after the call
ExtractStakeInfo(uo, res) ==
    << [address |-> HeadAddress(uo.init_code),
        stake |-> res.factory_info.stake,
        unstake_delay |-> res.factory_info.unstake_delay],
       [address |-> uo.sender,
        stake |-> res.sender_info.stake,
        unstake_delay |-> res.sender_info.unstake_delay],
       [address |-> HeadAddress(uo.paymaster_and_data),
        stake |-> res.paymaster_info.stake,
        unstake_delay |-> res.paymaster_info.unstake_delay] >>

\* simulate_user_operation at self.extract_stake_info(..)
ExtractStake ==
    /\ pc = "extract_stake_info"
    /\ log' = Append(log, Began("extract_stake_info"))
    /\ stakeInfo' = ExtractStakeInfo(userOp, simResp.result)
    /\ pc' = "forbidden_opcodes"
    /\ UNCHANGED <<userOp, simResp, traceResp, trace, world, loc, result>>

-----------------------------------------------------------------------------
(* CodeHashChecker: get_code_hashes, code_hashes.                          *)

\* keccak256(&code) of the bytecode with number `code`
CodeHashOfCode(code) == (code + 1) * HashGap + 1

CodeHash(a, h) == [address |-> a, hash |-> h]

\* The elements of a sequence, and how often one occurs in it
Range(s) == {s[i] : i \in 1..Len(s)}
Occurrences(s, x) == Cardinality({i \in 1..Len(s) : s[i] = x})

\* utils::equal_code_hashes: the two vectors hold the same (address, hash)
\* pairs the same number of times
EqualCodeHashes(hashes, prev) ==
    \A x \in Range(hashes) \cup Range(prev) : Occurrences(hashes, x) = Occurrences(prev, x)

\* The addresses of a set in one of the orders a HashMap can give them
RECURSIVE SomeOrder(_)
SomeOrder(S) ==
    IF S = {} THEN <<>>
    ELSE LET a == CHOOSE x \in S : \A y \in S : x <= y
         IN  <<a>> \o SomeOrder(S \ {a})

\* let contract_addresses = trace.number_levels.iter().flat_map(|level|
\* level.contract_size.keys()).collect(): the keys of every level, level
\* after level, an address once for each level that has it
RECURSIVE ContractAddressesFrom(_, _)
ContractAddressesFrom(tr, n) ==
    IF n > Len(tr.number_levels) THEN <<>>
    ELSE SomeOrder(tr.number_levels[n].contract_size) \o ContractAddressesFrom(tr, n + 1)

ContractAddresses(tr) == ContractAddressesFrom(tr, 1)

\* Every order a HashMap can give the addresses of a set
RECURSIVE KeyOrders(_)
KeyOrders(S) ==
    IF S = {} THEN {<<>>}
    ELSE UNION {{<<a>> \o rest : rest \in KeyOrders(S \ {a})} : a \in S}

\* Every value contract_addresses can have: the levels in their order, the
\* keys of a level in any order
RECURSIVE ContractAddressOrdersFrom(_, _)
ContractAddressOrdersFrom(tr, n) ==
    IF n > Len(tr.number_levels) THEN {<<>>}
    ELSE {head \o tail : head \in KeyOrders(tr.number_levels[n].contract_size),
                         tail \in ContractAddressOrdersFrom(tr, n + 1)}

ContractAddressOrders(tr) == ContractAddressOrdersFrom(tr, 1)

\* code_hashes begins: get_code_hashes spawns one task for each address of
\* contract_addresses; no task has run yet
ChSpawn ==
    /\ pc = "code_hashes"
    /\ log' = Append(log, Began("code_hashes"))
    /\ \E contract_addresses \in ContractAddressOrders(trace) :
        loc' = [tasks |-> [i \in 1..Len(contract_addresses) |->
                            [address |-> contract_addresses[i],
                             state |-> "running", hash |-> 0]],
                code_hashes |-> <<>>]
    /\ pc' = "ch_join"
    /\ UNCHANGED <<userOp, simResp, traceResp, trace, stakeInfo, world, result>>

\* A spawned task runs: eth_provider.get_code(address) answers the code, or
\* fails
ChFetch ==
    /\ pc = "ch_join"
    /\ \E i \in DOMAIN loc.tasks :
        /\ loc.tasks[i].state = "running"
        /\ log' = Append(log, LogEntry("get_code", loc.tasks[i].address))
        /\ \/ /\ loc' = [loc EXCEPT !.tasks[i].state = "some",
                                    !.tasks[i].hash =
                                        CodeHashOfCode(world.code[loc.tasks[i].address])]
              /\ world' = world
           \/ /\ world.faults > 0
              /\ loc' = [loc EXCEPT !.tasks[i].state = "none"]
              /\ world' = [world EXCEPT !.faults = world.faults - 1]
    /\ UNCHANGED <<userOp, simResp, traceResp, trace, stakeInfo, pc, result>>

\* A variant of the join loop that pairs the hash it joins with the next
\* address of contract_addresses instead of the address the task carries
ChJoinZipped ==
    /\ pc = "ch_join"
    /\ \E i \in DOMAIN loc.tasks :
        /\ loc.tasks[i].state = "some"
        /\ loc' = [loc EXCEPT
                     !.tasks[i].state = "joined",
                     !.code_hashes = Append(loc.code_hashes,
                         CodeHash(loc.tasks[Len(loc.code_hashes) + 1].address,
                                  loc.tasks[i].hash))]
    /\ UNCHANGED <<userOp, simResp, traceResp, trace, stakeInfo, world, log, pc, result>>

\* A variant of the join loop that skips a task that returned None
ChJoinSkippingFailures ==
    /\ pc = "ch_join"
    /\ \E i \in DOMAIN loc.tasks :
        /\ loc.tasks[i].state \in {"some", "none"}
        /\ loc' = [loc EXCEPT
                     !.tasks[i].state = "joined",
                     !.code_hashes =
                         IF loc.tasks[i].state = "some"
                         THEN Append(loc.code_hashes,
                                     CodeHash(loc.tasks[i].address, loc.tasks[i].hash))
                         ELSE loc.code_hashes]
    /\ UNCHANGED <<userOp, simResp, traceResp, trace, stakeInfo, world, log, pc, result>>

\* while let Some(result) = tasks.join_next().await: a finished task is
\* joined, in the order the tasks finish; Some(code_hash) is pushed, None
\* returns the error and drops the JoinSet: the task joined is "failed", the
\* tasks still running are "aborted", the results not yet joined are
\* "dropped"
ChJoin ==
    /\ pc = "ch_join"
    /\ \E i \in DOMAIN loc.tasks :
        /\ loc.tasks[i].state \in {"some", "none"}
        /\ IF loc.tasks[i].state = "some"
           THEN /\ loc' = [loc EXCEPT
                            !.tasks[i].state = "joined",
                            !.code_hashes = Append(loc.code_hashes,
                                CodeHash(loc.tasks[i].address, loc.tasks[i].hash))]
                /\ pc' = pc
                /\ result' = result
           ELSE /\ loc' = [loc EXCEPT
                            !.tasks = [j \in DOMAIN loc.tasks |->
                                IF j = i THEN [loc.tasks[j] EXCEPT !.state = "failed"]
                                ELSE IF loc.tasks[j].state = "joined" THEN loc.tasks[j]
                                ELSE IF loc.tasks[j].state = "running"
                                THEN [loc.tasks[j] EXCEPT !.state = "aborted"]
                                ELSE [loc.tasks[j] EXCEPT !.state = "dropped"]]]
                /\ pc' = "done"
                /\ result' = UnknownError("failed to get code hashes")
    /\ UNCHANGED <<userOp, simResp, traceResp, trace, stakeInfo, world, log>>

\* A task the JoinSet aborted while it was being polled runs on to its next
\* await: it can still send its get_code request.  What it returns is
\* dropped with the task
ChDiscarded ==
    /\ pc \in {"done", "cancelled"}
    /\ loc # None
    /\ "tasks" \in DOMAIN loc
    /\ \E i \in DOMAIN loc.tasks :
        /\ loc.tasks[i].state = "aborted"
        /\ log' = Append(log, LogEntry("get_code", loc.tasks[i].address))
        /\ loc' = [loc EXCEPT !.tasks[i].state = "dropped"]
    /\ UNCHANGED <<userOp, simResp, traceResp, trace, stakeInfo, world, pc, result>>

\* A variant of the cancellation that keeps the tasks as detached handles:
\* dropping them leaves the tasks running
CancelDetaching ==
    /\ pc \in {"simulate_validation", "simulate_validation_trace", "ch_join"}
    /\ pc' = "cancelled"
    /\ UNCHANGED <<userOp, simResp, traceResp, trace, stakeInfo, world, loc, log, result>>

\* The caller drops the future of simulate_user_operation while it waits at
\* one of its awaits: nothing is returned.  At tasks.join_next().await the
\* JoinSet and the Vec of code hashes are dropped with it: the tasks still
\* running are "aborted", the results not yet joined are "dropped"
Cancel ==
    /\ pc \in {"simulate_validation", "simulate_validation_trace", "ch_join"}
    /\ pc' = "cancelled"
    /\ loc' = IF pc = "ch_join"
              THEN [loc EXCEPT
                      !.tasks = [j \in DOMAIN loc.tasks |->
                          IF loc.tasks[j].state = "joined" THEN loc.tasks[j]
                          ELSE IF loc.tasks[j].state = "running"
                          THEN [loc.tasks[j] EXCEPT !.state = "aborted"]
                          ELSE [loc.tasks[j] EXCEPT !.state = "dropped"]]]
              ELSE loc
    /\ UNCHANGED <<userOp, simResp, traceResp, trace, stakeInfo, world, log, result>>

\* Ok(SimulationResult { simulate_validation_result, code_hashes })
SimulationResult(res, code_hashes) ==
    [kind |-> "SimulationResult", simulate_validation_result |-> res,
     code_hashes |-> code_hashes]

\* A variant of the comparison that also compares on the first simulation,
\* against no hashes
CodeHashesVerdictAlwaysCompares(has, code_hashes, prev_code_hashes) ==
    IF has = "err" THEN UnknownError("mempool error")
    ELSE IF ~EqualCodeHashes(code_hashes, prev_code_hashes)
    THEN CodeHashesValidation("modified code after 1st simulation")
    ELSE Ok

\* match self.mempool.has_code_hashes(&user_operation_hash) { .. }: has is
\* "true", "false" or "err"; prev_code_hashes is read when has is "true"
CodeHashesVerdict(has, code_hashes, prev_code_hashes) ==
    IF has = "true"
    THEN IF ~EqualCodeHashes(code_hashes, prev_code_hashes)
         THEN CodeHashesValidation("modified code after 1st simulation")
         ELSE Ok
    ELSE IF has = "false" THEN Ok
    ELSE UnknownError("mempool error")

\* mempool.has_code_hashes(hash): Ok(true), Ok(false) or Err
HasCodeHashes(mempool, hash) ==
    IF mempool.broken THEN "err"
    ELSE IF hash \in DOMAIN mempool.code_hashes THEN "true" ELSE "false"

\* A variant of the read that finds nothing under the hash
GetCodeHashesOfNone(mempool, hash) == <<>>

\* mempool.get_code_hashes(hash)
GetCodeHashes(mempool, hash) ==
    IF hash \in DOMAIN mempool.code_hashes THEN mempool.code_hashes[hash] ELSE <<>>

\* A variant of the comparison that stores the fresh code hashes in the
\* mempool on a first simulation
ChCompareStoring ==
    /\ pc = "ch_join"
    /\ \A i \in DOMAIN loc.tasks : loc.tasks[i].state = "joined"
    /\ LET has == HasCodeHashes(world.mempool, userOp.hash)
           prev == IF has = "true" THEN GetCodeHashes(world.mempool, userOp.hash) ELSE <<>>
           verdict == CodeHashesVerdict(has, loc.code_hashes, prev)
       IN  /\ log' = IF has = "true"
                     THEN log \o <<Called("has_code_hashes"), Called("get_code_hashes")>>
                     ELSE Append(log, Called("has_code_hashes"))
           /\ result' = IF verdict = Ok
                        THEN SimulationResult(
                                 IF simResp = None THEN None ELSE simResp.result,
                                 loc.code_hashes)
                        ELSE verdict
           /\ world' = IF has = "false"
                       THEN [world EXCEPT !.mempool.code_hashes =
                               [h \in DOMAIN world.mempool.code_hashes \cup {userOp.hash} |->
                                  IF h = userOp.hash THEN loc.code_hashes
                                  ELSE world.mempool.code_hashes[h]]]
                       ELSE world
    /\ pc' = "done"
    /\ UNCHANGED <<userOp, simResp, traceResp, trace, stakeInfo, loc>>

\* join_next() gave None: get_code_hashes returns Ok(()), and code_hashes asks
\* the mempool and compares; Ok ends simulate_user_operation with its result
ChCompare ==
    /\ pc = "ch_join"
    /\ \A i \in DOMAIN loc.tasks : loc.tasks[i].state = "joined"
    /\ LET has == HasCodeHashes(world.mempool, userOp.hash)
           prev == IF has = "true" THEN GetCodeHashes(world.mempool, userOp.hash) ELSE <<>>
           verdict == CodeHashesVerdict(has, loc.code_hashes, prev)
       IN  /\ log' = IF has = "true"
                     THEN log \o <<Called("has_code_hashes"), Called("get_code_hashes")>>
                     ELSE Append(log, Called("has_code_hashes"))
           /\ result' = IF verdict = Ok
                        THEN SimulationResult(
                                 IF simResp = None THEN None ELSE simResp.result,
                                 loc.code_hashes)
                        ELSE verdict
    /\ pc' = "done"
    /\ UNCHANGED <<userOp, simResp, traceResp, trace, stakeInfo, world, loc>>

-----------------------------------------------------------------------------
(* Inputs of the bounded checks.                                           *)

\* Largest stake an entity has in the inputs
MaxStake == 1

\* Largest count of an opcode in the inputs
MaxCount == 2

SenderAddr == EntryPointAddr + 1
FactoryAddr == EntryPointAddr + 2
PaymasterAddr == EntryPointAddr + 3
OtherAddr == EntryPointAddr + 4

NoBytes == [len |-> 0, head |-> ZeroAddress]
ShortBytes == [len |-> ADDRESS_LEN - 1, head |-> ZeroAddress]
BytesOf(a) == [len |-> ADDRESS_LEN, head |-> a]

EntityInfos == {[stake |-> s, unstake_delay |-> 0] : s \in {0, MaxStake}}

SimResults ==
    [variant : {"ValidationResult", "ValidationResultWithAggregation"},
     return_info : [sig_failed : BOOLEAN],
     factory_info : EntityInfos, sender_info : EntityInfos,
     paymaster_info : EntityInfos]

EmptyAccess == [a \in {} |-> 0]
EmptyLevel == [opcodes |-> EmptyOpcodes, access |-> EmptyAccess, contract_size |-> {}]

NoCodeHashes == [h \in {} |-> <<>>]
IdleWorld == [verify_stake_ok |-> TRUE, code |-> [a \in {} |-> 0], faults |-> 0,
              mempool |-> [broken |-> FALSE, code_hashes |-> NoCodeHashes]]

\* Preimages of the inputs: one that starts with each padded entity address
PreSender == [pad |-> SenderAddr, rest |-> 0]
PreFactory == [pad |-> FactoryAddr, rest |-> 0]
PrePaymaster == [pad |-> PaymasterAddr, rest |-> 1]
PreZero == [pad |-> ZeroAddress, rest |-> 0]

StorageKeccaks ==
    {<<>>, <<PreSender>>, <<PreZero, PreFactory, PrePaymaster>>,
     <<PreSender, PrePaymaster, PreFactory, PreSender>>}

StorageSlots ==
    {HexString(Keccak256(PreSender)),
     HexString(Keccak256(PreFactory)),
     HexString(Keccak256(PrePaymaster) + SLOT_WINDOW - 1),
     HexString(Keccak256(PrePaymaster) + SLOT_WINDOW),
     AddrToString(SenderAddr), AddrToString(PaymasterAddr),
     BadString, EmptyString}

StorageUserOps ==
    {[sender |-> SenderAddr, init_code |-> ic, paymaster_and_data |-> pd, hash |-> 0] :
        ic \in {NoBytes, ShortBytes, BytesOf(FactoryAddr)},
        pd \in {NoBytes, BytesOf(PaymasterAddr)}}
    \ {[sender |-> SenderAddr, init_code |-> ic, paymaster_and_data |-> NoBytes, hash |-> 0] :
        ic \in {ShortBytes, BytesOf(FactoryAddr)}}

\* The access maps of a level built around an address and a slot
StorageAccesses(a, s) ==
    {[x \in {a} |-> [reads |-> {s}, writes |-> {}]],
     [x \in {a} |-> [reads |-> {}, writes |-> {s}]],
     [x \in {a, EntryPointAddr} |->
        IF x = a THEN [reads |-> {s}, writes |-> {HexString(Keccak256(PreSender)), s}]
                 ELSE [reads |-> {BadString}, writes |-> {}]]}

LevelWith(acc) == [EmptyLevel EXCEPT !.access = acc]

\* The traces built around one access map: it sits at one level alone, or at
\* all three; the levels above it may be missing
StorageLevels(acc) ==
    {<<>>, <<LevelWith(acc)>>, <<EmptyLevel, LevelWith(acc)>>,
     <<EmptyLevel, EmptyLevel, LevelWith(acc)>>,
     <<LevelWith(acc), LevelWith(acc), LevelWith(acc)>>}

StorageTraces ==
    UNION {UNION {{[number_levels |-> lv, keccak |-> kc, calls |-> <<>>] :
                      lv \in StorageLevels(acc), kc \in StorageKeccaks} :
                  acc \in StorageAccesses(a, s)} :
           a \in {SenderAddr, FactoryAddr, PaymasterAddr, OtherAddr}, s \in StorageSlots}

\* Opcode names of the inputs: two banned ones, CREATE2 and one that is free
OpcodeNames == {"TIMESTAMP", "CREATE", CREATE2_OPCODE, "SLOAD"}

\* The opcode maps of a level: any of the names, CREATE2 with any count
OpcodeMaps ==
    UNION {[ks -> 0..MaxCount] : ks \in SUBSET OpcodeNames} \cap
    UNION {{m \in [ks -> 0..MaxCount] : \A o \in ks : o # CREATE2_OPCODE => m[o] = 1} :
           ks \in SUBSET OpcodeNames}

OpcodeLevels == {[EmptyLevel EXCEPT !.opcodes = m] : m \in OpcodeMaps}

OpcodeTraces ==
    {[number_levels |-> lv, keccak |-> <<>>, calls |-> <<>>] :
        lv \in UNION {[1..n -> OpcodeLevels] : n \in 0..NUMBER_LEVELS}}

\* simulate_user_operation stands before forbidden_opcodes with any of the
\* traces
InitOpcodes ==
    /\ userOp = [IdleUserOp EXCEPT !.sender = SenderAddr]
    /\ trace \in OpcodeTraces
    /\ stakeInfo = IdleStakeInfo
    /\ simResp = None
    /\ traceResp = None
    /\ world = IdleWorld
    /\ pc = "forbidden_opcodes"
    /\ loc = None
    /\ result = None
    /\ log = <<>>

NextOpcodes == ForbiddenOpcodes

SpecOpcodes == InitOpcodes /\ [][NextOpcodes]_vars

\* Longest trace.calls of the inputs
MaxCalls == 4

CallFrame(typ, to, method) ==
    [typ |-> typ, from |-> EntryPointAddr, to |-> to, method |-> method,
     value |-> Absent, data |-> Absent]

CloseEvent(typ, data) ==
    [typ |-> typ, from |-> AbsentAddr, to |-> AbsentAddr, method |-> Absent,
     value |-> Absent, data |-> data]

\* Events of the inputs: calls of validatePaymasterUserOp to the paymaster and
\* to another address, a call of another method, a CREATE2, and the closes
CallEvents ==
    {CallFrame("CALL", PaymasterAddr, "0xf465c77e"),
     CallFrame("CALL", OtherAddr, "0xf465c77e"),
     CallFrame("CALL", PaymasterAddr, "0x3a871cdd"),
     CallFrame("CREATE2", PaymasterAddr, "0xf465c77e"),
     CloseEvent(RETURN_OPCODE, "context_nonempty"),
     CloseEvent(RETURN_OPCODE, "context_empty"),
     CloseEvent(RETURN_OPCODE, "undecodable"),
     CloseEvent(REVERT_OPCODE, "context_nonempty")}

CallTraces ==
    {[number_levels |-> <<>>, keccak |-> <<>>, calls |-> cs] :
        cs \in UNION {[1..n -> CallEvents] : n \in 0..MaxCalls}}

\* simulate_user_operation stands before call_stack with any of the traces,
\* with and without a paymaster, and with either answer of the reputation
InitCallStack ==
    /\ userOp \in {[IdleUserOp EXCEPT !.sender = SenderAddr, !.paymaster_and_data = pd] :
                       pd \in {NoBytes, BytesOf(PaymasterAddr)}}
    /\ trace \in CallTraces
    /\ \E r \in SimResults :
        /\ r.variant = "ValidationResult" /\ ~r.return_info.sig_failed
        /\ r.factory_info.stake = 0 /\ r.sender_info.stake = 0
        /\ r.paymaster_info.stake = 0
        /\ stakeInfo = ExtractStakeInfo(userOp, r)
    /\ simResp = None
    /\ traceResp = None
    /\ world \in {[IdleWorld EXCEPT !.verify_stake_ok = b] : b \in BOOLEAN}
    /\ pc = "call_stack"
    /\ loc = None
    /\ result = None
    /\ log = <<>>

NextCallStack == CallStack

SpecCallStack == InitCallStack /\ [][NextCallStack]_vars

\* Most failures of get_code in one run
MaxFaults == 1

\* Number of different bytecodes an address can hold
MaxCode == 2

\* user_operation.hash(&entry_point, &chain_id) of the operation of the inputs
\* and of another operation
OpHash == EntryPointAddr
OtherOpHash == EntryPointAddr + 1

ContractLevel(S) == [EmptyLevel EXCEPT !.contract_size = S]

\* Traces of zero to two levels that touch any of two contracts
ContractTraces ==
    {[number_levels |-> lv, keccak |-> <<>>, calls |-> <<>>] :
        lv \in UNION {[1..n -> {ContractLevel(S) : S \in SUBSET {FactoryAddr, OtherAddr}}] :
                      n \in 0..2}}

\* The chain: FactoryAddr holds any bytecode, every other address bytecode 1
Chains ==
    {[a \in ZeroAddress..OtherAddr |-> IF a = FactoryAddr THEN c ELSE 1] : c \in 1..MaxCode}

\* The code hashes of the addresses of a sequence on a chain
RECURSIVE HashesOn(_, _)
HashesOn(code, addrs) ==
    IF addrs = <<>> THEN <<>>
    ELSE <<CodeHash(Head(addrs), CodeHashOfCode(code[Head(addrs)]))>>
         \o HashesOn(code, Tail(addrs))

RECURSIVE Reversed(_)
Reversed(s) == IF s = <<>> THEN <<>> ELSE Append(Reversed(Tail(s)), Head(s))

\* What the mempool can hold for the operation when the trace is tr: the
\* hashes an earlier simulation saw on some chain, in either order, or those
\* but one, or none
PrevCodeHashes(tr) ==
    UNION {{HashesOn(code, ContractAddresses(tr)),
            Reversed(HashesOn(code, ContractAddresses(tr))),
            IF ContractAddresses(tr) = <<>> THEN <<>>
            ELSE Tail(HashesOn(code, ContractAddresses(tr)))} : code \in Chains}
    \cup {<<>>}

\* The mempools of the inputs: nothing stored for the operation, something
\* stored for it, something stored for another operation only, or a store
\* that fails
Mempools(tr) ==
    {[broken |-> FALSE, code_hashes |-> NoCodeHashes],
     [broken |-> TRUE, code_hashes |-> NoCodeHashes],
     [broken |-> FALSE, code_hashes |-> [h \in {OtherOpHash} |-> <<>>]]}
    \cup {[broken |-> FALSE, code_hashes |-> [h \in {OpHash} |-> prev]] :
             prev \in PrevCodeHashes(tr)}

\* simulate_user_operation stands before code_hashes with any of the traces,
\* chains and mempools
InitCodeHashes ==
    /\ userOp = [IdleUserOp EXCEPT !.sender = SenderAddr, !.hash = OpHash]
    /\ trace \in ContractTraces
    /\ stakeInfo = IdleStakeInfo
    /\ simResp = None
    /\ traceResp = None
    /\ world \in {[verify_stake_ok |-> TRUE, code |-> code, faults |-> f, mempool |-> m] :
                      code \in Chains, f \in 0..MaxFaults, m \in Mempools(trace)}
    /\ pc = "code_hashes"
    /\ loc = None
    /\ result = None
    /\ log = <<>>

NextCodeHashes == ChSpawn \/ ChFetch \/ ChJoin \/ ChCompare \/ ChDiscarded

SpecCodeHashes == InitCodeHashes /\ [][NextCodeHashes]_vars

\* Longest trace.calls of the inputs of two runs of parse_call_stack
MaxEvents == 3

\* let mut stack = vec![]; calls is empty: parse_call_stack before its loop
ReducerStart == [stack |-> <<>>, calls |-> <<>>]

\* Two runs of parse_call_stack stand before the first event of the same
\* trace.calls; the pool is in any state of its reputation
InitReducer ==
    /\ userOp = [IdleUserOp EXCEPT !.sender = SenderAddr]
    /\ trace \in {[number_levels |-> <<>>, keccak |-> <<>>, calls |-> cs] :
                     cs \in UNION {[1..n -> CallEvents] : n \in 0..MaxEvents}}
    /\ stakeInfo = IdleStakeInfo
    /\ simResp = None
    /\ traceResp = None
    /\ world \in {[IdleWorld EXCEPT !.verify_stake_ok = b] : b \in BOOLEAN}
    /\ pc = "parse_call_stack"
    /\ loc = [first |-> ReducerStart, second |-> ReducerStart, i |-> 0, j |-> 0]
    /\ result = None
    /\ log = <<>>

\* for call in trace.calls.iter(): one turn of the loop of the first run
ReduceFirst ==
    /\ pc = "parse_call_stack"
    /\ loc.i < Len(trace.calls)
    /\ loc' = [loc EXCEPT !.first = ReduceStep(loc.first, trace.calls[loc.i + 1]),
                          !.i = loc.i + 1]
    /\ UNCHANGED <<userOp, simResp, traceResp, trace, stakeInfo, world, pc, result, log>>

\* One turn of the loop of the second run
ReduceSecond ==
    /\ pc = "parse_call_stack"
    /\ loc.j < Len(trace.calls)
    /\ loc' = [loc EXCEPT !.second = ReduceStep(loc.second, trace.calls[loc.j + 1]),
                          !.j = loc.j + 1]
    /\ UNCHANGED <<userOp, simResp, traceResp, trace, stakeInfo, world, pc, result, log>>

\* The rest of the pool moves between two turns: the code hashes of another
\* operation are stored in the mempool, or the answer of the reputation
\* changes
PoolChanges ==
    /\ pc = "parse_call_stack"
    /\ \/ /\ OtherOpHash \notin DOMAIN world.mempool.code_hashes
          /\ world' = [world EXCEPT !.mempool.code_hashes =
                          [h \in {OtherOpHash} |-> <<>>]]
       \/ world' = [world EXCEPT !.verify_stake_ok = ~world.verify_stake_ok]
    /\ UNCHANGED <<userOp, simResp, traceResp, trace, stakeInfo, pc, loc, result, log>>

NextReducer == ReduceFirst \/ ReduceSecond \/ PoolChanges

SpecReducer == InitReducer /\ [][NextReducer]_vars

\* Longest trace.calls of the inputs of one run of parse_call_stack taken
\* turn by turn
MaxFold == 5

\* Events of those inputs: a call of validatePaymasterUserOp that carries a
\* value, a call of another method from another caller, a CREATE2 that
\* carries a method and a value, and the two closes
FoldEvents ==
    {[CallFrame("CALL", PaymasterAddr, "0xf465c77e") EXCEPT !.value = "0x1"],
     [CallFrame("CALL", OtherAddr, "0x3a871cdd") EXCEPT !.from = SenderAddr],
     [CallFrame("CREATE2", FactoryAddr, "0xf465c77e") EXCEPT !.value = "0x2"],
     CloseEvent(RETURN_OPCODE, "context_nonempty"),
     CloseEvent(REVERT_OPCODE, "reason")}

\* parse_call_stack stands before the first event of any of the traces
InitFold ==
    /\ userOp = [IdleUserOp EXCEPT !.sender = SenderAddr]
    /\ trace \in {[number_levels |-> <<>>, keccak |-> <<>>, calls |-> cs] :
                     cs \in UNION {[1..n -> FoldEvents] : n \in 0..MaxFold}}
    /\ stakeInfo = IdleStakeInfo
    /\ simResp = None
    /\ traceResp = None
    /\ world = IdleWorld
    /\ pc = "parse_call_stack"
    /\ loc = [st |-> ReducerStart, i |-> 0]
    /\ result = None
    /\ log = <<>>

\* for call in trace.calls.iter(): one turn of the loop; after the last
\* event parse_call_stack returns Ok(()) with what it has emitted
Fold ==
    /\ pc = "parse_call_stack"
    /\ IF loc.i < Len(trace.calls)
       THEN /\ loc' = [st |-> ReduceStep(loc.st, trace.calls[loc.i + 1]), i |-> loc.i + 1]
            /\ pc' = pc
            /\ result' = result
       ELSE /\ loc' = loc
            /\ pc' = "done"
            /\ result' = Ok
    /\ UNCHANGED <<userOp, simResp, traceResp, trace, stakeInfo, world, log>>

NextFold == Fold

SpecFold == InitFold /\ [][NextFold]_vars

\* Hashes of the tables associated_with_slot is called on: two whose windows
\* touch, the largest whose window ends at the top of U256, and one above it
WindowLow == 2 * SLOT_WINDOW
WindowNext == WindowLow + SLOT_WINDOW
WindowLastSafe == UintLimit - SLOT_WINDOW - 1
WindowTop == UintLimit - SLOT_WINDOW

\* The tables: no key for any address, or the paymaster with any of the
\* hashes
WindowTables ==
    {[a \in {} |-> {}]}
    \cup {[a \in {PaymasterAddr} |-> S] :
             S \in SUBSET {WindowLow, WindowNext, WindowLastSafe, WindowTop} \ {{}}}

\* The slots: the ends of every window and the slots next to them, the
\* largest number, and the texts that are no hex number
WindowSlots ==
    {HexString(n) : n \in {0, WindowLow - 1, WindowLow, WindowLow + SLOT_WINDOW - 1,
                           WindowNext, WindowNext + SLOT_WINDOW - 1,
                           WindowNext + SLOT_WINDOW, WindowLastSafe - 1, WindowLastSafe,
                           WindowTop, UintLimit - 1}}
    \cup {EmptyString, BadString, AddrToString(PaymasterAddr)}

\* associated_with_slot is about to be called on an address, a slot and a
\* table
InitWindow ==
    /\ userOp = IdleUserOp
    /\ trace = IdleTrace
    /\ stakeInfo = IdleStakeInfo
    /\ simResp = None
    /\ traceResp = None
    /\ world = IdleWorld
    /\ pc = "associated_with_slot"
    /\ loc \in [address : {PaymasterAddr, FactoryAddr}, slot : WindowSlots,
                slots_by_entity : WindowTables]
    /\ result = None
    /\ log = <<>>

\* self.associated_with_slot(address, slot, &slots_by_entity)
Associate ==
    /\ pc = "associated_with_slot"
    /\ \E out \in AssociatedWithSlotOutcomes(loc.address, loc.slot, loc.slots_by_entity) :
        result' = [kind |-> "Associated", value |-> out]
    /\ pc' = "done"
    /\ UNCHANGED <<userOp, simResp, traceResp, trace, stakeInfo, world, loc, log>>

NextWindow == Associate

SpecWindow == InitWindow /\ [][NextWindow]_vars

\* The messages an error of the inputs carries
ErrorMessages ==
    {"unknown error", "AA21 didn't pay prefund", "AA23 reverted (or OOG)", "trace error",
     "Paymaster that is not staked should not return context",
     "modified code after 1st simulation", "failed to get code hashes", "mempool error"}

\* The values of SimulateValidationError of the inputs: every variant, with
\* every entity and opcode forbidden_opcodes can name, slots of every form,
\* and any of the messages
SimulateValidationErrors ==
    {SignatureValidationErr}
    \cup {UserOperationRejected(m) : m \in ErrorMessages}
    \cup {OpcodeValidation(EntityName(index), o) :
             index \in 0..(NUMBER_LEVELS - 1), o \in FORBIDDEN_OPCODES \cup {CREATE2_OPCODE}}
    \cup {UserOperationExecution(m) : m \in ErrorMessages}
    \cup {StorageAccessValidation(s) :
             s \in {EmptyString, BadString, AddrToString(SenderAddr)}
                    \cup {HexString(n) : n \in 0..MaxStake}}
    \cup {CallStackValidation(m) : m \in ErrorMessages}
    \cup {CodeHashesValidation(m) : m \in ErrorMessages}
    \cup {UnknownError(m) : m \in ErrorMessages}

\* A SimulateValidationError is about to be converted
InitErrorCode ==
    /\ userOp = IdleUserOp
    /\ trace = IdleTrace
    /\ stakeInfo = IdleStakeInfo
    /\ simResp = None
    /\ traceResp = None
    /\ world = IdleWorld
    /\ pc = "error"
    /\ loc \in SimulateValidationErrors
    /\ result = None
    /\ log = <<>>

\* SimulationError::from(error): the caller turns the error of
\* simulate_user_operation into the JSON-RPC error
ConvertError ==
    /\ pc = "error"
    /\ result' = SimulationErrorFrom(loc)
    /\ pc' = "converted"
    /\ UNCHANGED <<userOp, simResp, traceResp, trace, stakeInfo, world, loc, log>>

NextErrorCode == ConvertError

SpecErrorCode == InitErrorCode /\ [][NextErrorCode]_vars

NextCancel == NextCodeHashes \/ Cancel

\* code_hashes, and the caller dropping the future while it waits for a task
SpecCancel == InitCodeHashes /\ [][NextCancel]_vars

\* storage_access is called on any of the inputs
InitStorage ==
    /\ userOp \in StorageUserOps
    /\ trace \in StorageTraces
    /\ \E r \in SimResults :
        /\ r.variant = "ValidationResult" /\ ~r.return_info.sig_failed
        /\ r.factory_info = r.paymaster_info
        /\ stakeInfo = ExtractStakeInfo(userOp, r)
    /\ simResp = None
    /\ traceResp = None
    /\ world = IdleWorld
    /\ pc = "storage_access"
    /\ loc = None
    /\ result = None
    /\ log = <<>>

NextStorage == SaBegin \/ SaVisit \/ SaSlot

SpecStorage == InitStorage /\ [][NextStorage]_vars

\* Answers of EntryPoint.simulate_validation: Ok with a result of either
\* variant, a FailedOp, or another EntryPointErr
SimResps ==
    {[kind |-> "Ok", message |-> "", result |-> r] :
        r \in {r \in SimResults : r.factory_info = r.sender_info
                                   /\ r.sender_info = r.paymaster_info}}
    \cup {[kind |-> "FailedOp", message |-> "AA21 didn't pay prefund", result |-> None],
          [kind |-> "Other", message |-> "", result |-> None]}

\* The levels of a trace that passes every checker when the entities are
\* staked: the factory deploys with one CREATE2 and reads a slot of the
\* sender, the account touches its own storage, the paymaster writes to its
\* own storage; two contracts are touched, one of them at two levels
CleanLevels ==
    << [opcodes |-> [o \in {CREATE2_OPCODE, "SLOAD"} |-> 1],
        access |-> [x \in {FactoryAddr} |->
                      [reads |-> {HexString(Keccak256(PreSender))}, writes |-> {}]],
        contract_size |-> {FactoryAddr}],
       [opcodes |-> [o \in {"SLOAD"} |-> MaxCount],
        access |-> [x \in {SenderAddr} |-> [reads |-> {BadString}, writes |-> {}]],
        contract_size |-> {FactoryAddr, OtherAddr}],
       [opcodes |-> EmptyOpcodes,
        access |-> [x \in {PaymasterAddr} |->
                      [reads |-> {}, writes |-> {HexString(Keccak256(PrePaymaster))}]],
        contract_size |-> {}] >>

\* The paymaster validation returns a context; it returns bytes that do not
\* decode
ContextCalls ==
    <<CallFrame("CALL", PaymasterAddr, "0xf465c77e"),
      CloseEvent(RETURN_OPCODE, "context_nonempty")>>
GarbledCalls ==
    <<CallFrame("CALL", PaymasterAddr, "0xf465c77e"),
      CloseEvent(RETURN_OPCODE, "undecodable")>>

CleanTrace ==
    [number_levels |-> CleanLevels, keccak |-> <<PreSender, PrePaymaster>>,
     calls |-> ContextCalls]

\* The frames of the inputs: the clean one, and the clean one with a banned
\* opcode at the account level, with two CREATE2 at the factory level, with
\* a foreign slot read at the account level, with a garbled paymaster return
\* value, and a frame without levels and calls.  The frames that break a rule
\* of one checker keep what the later checkers would act on.
TraceFrames ==
    {CleanTrace,
     [CleanTrace EXCEPT !.number_levels[2].opcodes = [o \in {"TIMESTAMP"} |-> 1],
                        !.number_levels[2].access =
                            [x \in {OtherAddr} |-> [reads |-> {BadString}, writes |-> {}]]],
     [CleanTrace EXCEPT !.number_levels[1].opcodes = [o \in {CREATE2_OPCODE} |-> MaxCount]],
     [CleanTrace EXCEPT !.number_levels[2].access =
                            [x \in {OtherAddr} |->
                               [reads |-> {HexString(Keccak256(PreFactory))}, writes |-> {}]]],
     [CleanTrace EXCEPT !.calls = GarbledCalls],
     IdleTrace}

\* Answers of EntryPoint.simulate_validation_trace and of the conversion of
\* the trace to a JsTracerFrame: a frame, a trace that does not convert, a
\* FailedOp, or another EntryPointErr
TraceResps ==
    {[kind |-> "Ok", message |-> "", parses |-> TRUE, frame |-> f] : f \in TraceFrames}
    \cup {[kind |-> "Ok", message |-> "", parses |-> FALSE, frame |-> IdleTrace],
          [kind |-> "FailedOp", message |-> "AA23 reverted (or OOG)", parses |-> FALSE,
           frame |-> IdleTrace],
          [kind |-> "Other", message |-> "", parses |-> FALSE, frame |-> IdleTrace]}

\* The mempools of a run whose trace is tr: nothing stored for the operation,
\* a store that fails, or the hashes an earlier simulation saw on some chain
RunMempools(tr) ==
    {[broken |-> FALSE, code_hashes |-> NoCodeHashes],
     [broken |-> TRUE, code_hashes |-> NoCodeHashes]}
    \cup {[broken |-> FALSE,
           code_hashes |-> [h \in {OpHash} |-> HashesOn(code, ContractAddresses(tr))]] :
             code \in Chains}

\* simulate_user_operation is called: nothing has run
Init ==
    /\ userOp \in {[sender |-> SenderAddr, init_code |-> ic,
                     paymaster_and_data |-> BytesOf(PaymasterAddr), hash |-> OpHash] :
                       ic \in {NoBytes, BytesOf(FactoryAddr)}}
    /\ simResp \in SimResps
    /\ traceResp \in TraceResps
    /\ trace = IdleTrace
    /\ stakeInfo = IdleStakeInfo
    /\ world \in {[verify_stake_ok |-> b, code |-> code, faults |-> f, mempool |-> m] :
                      b \in BOOLEAN, code \in Chains, f \in 0..MaxFaults,
                      m \in RunMempools(traceResp.frame)}
    /\ pc = "simulate_validation"
    /\ loc = None
    /\ result = None
    /\ log = <<>>

\* The steps of simulate_user_operation, each with the function it calls
Next ==
    \/ SimulateValidation
    \/ Signature
    \/ SimulateValidationTrace
    \/ ExtractStake
    \/ ForbiddenOpcodes
    \/ SaBegin
    \/ SaVisit
    \/ SaSlot
    \/ CallStack
    \/ ChSpawn
    \/ ChFetch
    \/ ChJoin
    \/ ChCompare
    \/ ChDiscarded

Spec == Init /\ [][Next]_vars

\* The caller of a successful first simulation stores the code hashes it got
\* under the hash of the operation (Mempool::set_code_hashes) and simulates
\* the same operation again; the chain keeps its bytecode
StoreAndRerun ==
    /\ pc = "done"
    /\ result.kind = "SimulationResult"
    /\ Called("set_code_hashes") \notin Range(log)
    /\ world' = [world EXCEPT !.mempool.code_hashes =
                     [h \in DOMAIN world.mempool.code_hashes \cup {userOp.hash} |->
                        IF h = userOp.hash THEN result.code_hashes
                        ELSE world.mempool.code_hashes[h]]]
    /\ log' = Append(log, Called("set_code_hashes"))
    /\ pc' = "simulate_validation"
    /\ trace' = IdleTrace
    /\ stakeInfo' = IdleStakeInfo
    /\ loc' = None
    /\ result' = None
    /\ UNCHANGED <<userOp, simResp, traceResp>>

NextTwice == Next \/ StoreAndRerun

\* simulate_user_operation, the store of its code hashes, and a second
\* simulate_user_operation on the same input
SpecTwice == Init /\ [][NextTwice]_vars

-----------------------------------------------------------------------------
(* Properties of simulate_user_operation.                                  *)

\* The steps in the order the rules give them
StepOrder ==
    <<"simulate_validation", "signature", "simulate_validation_trace",
      "extract_stake_info", "forbidden_opcodes", "storage_access", "call_stack",
      "code_hashes">>

StepNames == {StepOrder[i] : i \in 1..Len(StepOrder)}

\* The steps that have begun, oldest first
RECURSIVE StepsOf(_)
StepsOf(l) ==
    IF l = <<>> THEN <<>>
    ELSE IF Head(l).op \in StepNames THEN <<Head(l).op>> \o StepsOf(Tail(l))
    ELSE StepsOf(Tail(l))

\* The step an external call belongs to; the trace request is the begin of
\* its step
CallOwner(op) ==
    IF op = "verify_stake" THEN "call_stack" ELSE "code_hashes"

\* The steps that can return an error of a kind
ErrorOwners(kind) ==
    IF kind = "SignatureValidation" THEN {"signature"}
    ELSE IF kind = "OpcodeValidation" THEN {"forbidden_opcodes"}
    ELSE IF kind = "StorageAccessValidation" THEN {"storage_access"}
    ELSE IF kind = "CallStackValidation" THEN {"call_stack"}
    ELSE IF kind = "UserOperationRejected"
         THEN {"simulate_validation", "simulate_validation_trace", "call_stack"}
    ELSE {"code_hashes"}

\* The steps begun are the first steps of the order, each begun once; every
\* external call was issued while its step was the last one begun; and a
\* result is the result of the last step begun
StepsInOrder ==
    /\ Len(StepsOf(log)) <= Len(StepOrder)
    /\ StepsOf(log) = SubSeq(StepOrder, 1, Len(StepsOf(log)))
    /\ \A i \in 1..Len(log) :
          log[i].op \notin StepNames =>
              /\ StepsOf(SubSeq(log, 1, i)) # <<>>
              /\ StepsOf(SubSeq(log, 1, i))[Len(StepsOf(SubSeq(log, 1, i)))]
                    = CallOwner(log[i].op)
    /\ result # None =>
          /\ pc = "done"
          /\ StepsOf(log) # <<>>
          /\ StepsOf(log)[Len(StepsOf(log))] \in ErrorOwners(result.kind)

\* A step has begun only on what the steps before it need to succeed
BegunAfterSuccess ==
    /\ Began("signature") \in Range(log) => simResp.kind = "Ok"
    /\ Began("simulate_validation_trace") \in Range(log)
          => ~simResp.result.return_info.sig_failed
    /\ Began("extract_stake_info") \in Range(log)
          => traceResp.kind = "Ok" /\ traceResp.parses /\ trace = traceResp.frame
    /\ Began("storage_access") \in Range(log)
          => \A i \in 0..(NUMBER_LEVELS - 1) :
                HasLevel(trace, i) =>
                    /\ DOMAIN Level(trace, i).opcodes \cap FORBIDDEN_OPCODES = {}
                    /\ CREATE2_OPCODE \in DOMAIN Level(trace, i).opcodes
                          => i = 0 /\ Level(trace, i).opcodes[CREATE2_OPCODE] = 1
    /\ Began("code_hashes") \in Range(log)
          => \A i \in 1..Len(log) :
                log[i] = Called("verify_stake") => world.verify_stake_ok

\* C1: the steps of simulate_user_operation begin in the order
\* simulate_validation, signature, simulate_validation_trace,
\* extract_stake_info, forbidden_opcodes, storage_access, call_stack,
\* code_hashes, each only after the one before it has succeeded; once a step
\* has failed no step begins and no external call of a later step (trace
\* request, verify_stake, get_code, has_code_hashes, get_code_hashes) is
\* issued.  The one call that can follow a failure is the get_code of a task
\* of the failed code_hashes step itself that was aborted while running
C1_StepsInOrderAndFailFast ==
    /\ [](StepsInOrder /\ BegunAfterSuccess)
    /\ [][result # None =>
            \/ log' = log
            \/ /\ result = UnknownError("failed to get code hashes")
               /\ \E a \in Range(ContractAddresses(trace)) :
                     log' = Append(log, LogEntry("get_code", a))]_vars

\* storage_access failed on a trace that holds a paymaster context and
\* contracts: neither verify_stake nor get_code nor the mempool was called
C1_Witness ==
    /\ pc = "done"
    /\ result.kind = "StorageAccessValidation"
    /\ trace.calls = ContextCalls
    /\ ContractAddresses(trace) # <<>>
    /\ log = <<Began("simulate_validation"), Began("signature"),
               Began("simulate_validation_trace"), Began("extract_stake_info"),
               Began("forbidden_opcodes"), Began("storage_access")>>

\* simulate_validation answered with a result
Simulated == simResp.kind = "Ok" /\ Began("signature") \in Range(log)

\* C2: a result of either variant whose sigFailed is true makes
\* simulate_user_operation return SignatureValidation at the signature step;
\* with sigFailed false the signature gate does not fail
C2_SignatureGate ==
    Simulated =>
        IF simResp.result.return_info.sig_failed
        THEN /\ pc = "done"
             /\ result = SignatureValidationErr
             /\ StepsOf(log) = <<"simulate_validation", "signature">>
        ELSE /\ result # SignatureValidationErr
             /\ (pc = "done" => Began("simulate_validation_trace") \in Range(log))

\* The aggregated variant with sigFailed true was rejected
C2_Witness ==
    /\ Simulated
    /\ simResp.result.variant = "ValidationResultWithAggregation"
    /\ simResp.result.return_info.sig_failed
    /\ pc = "done"
    /\ result = SignatureValidationErr

-----------------------------------------------------------------------------
(* Properties of the ForbiddenOpcodeChecker.                               *)

\* The banned set as the rules list it
BannedSet ==
    {"GASPRICE", "GASLIMIT", "DIFFICULTY", "TIMESTAMP", "BASEFEE", "BLOCKHASH",
     "NUMBER", "SELFBALANCE", "BALANCE", "ORIGIN", "GAS", "CREATE", "COINBASE",
     "SELFDESTRUCT", "RANDOM", "PREVRANDAO"}

\* Level index (0-based) exists and has a banned opcode key
LevelHasBanned(index) ==
    HasLevel(trace, index) /\ DOMAIN Level(trace, index).opcodes \cap BannedSet # {}

\* Level index (0-based) exists and has a CREATE2 key
LevelHasCreate2(index) ==
    HasLevel(trace, index) /\ "CREATE2" \in DOMAIN Level(trace, index).opcodes

LevelIndices == 0..(NUMBER_LEVELS - 1)

\* forbidden_opcodes has returned: with an error, or Ok(())
OpcodesReturned == pc \in {"done", "storage_access"}
OpcodesPassed == pc = "storage_access" /\ result = None

\* C3: a banned opcode at an existing level makes forbidden_opcodes, and with
\* it simulate_user_operation, fail with OpcodeValidation; a trace without
\* banned opcode and without CREATE2 passes
C3_BannedOpcodeRejected ==
    OpcodesReturned =>
        /\ (\E i \in LevelIndices : LevelHasBanned(i))
              => pc = "done" /\ result.kind = "OpcodeValidation"
        /\ (\A i \in LevelIndices : ~LevelHasBanned(i) /\ ~LevelHasCreate2(i))
              => OpcodesPassed

\* TIMESTAMP at the paymaster level alone was rejected
C3_Witness ==
    /\ pc = "done"
    /\ Len(trace.number_levels) = NUMBER_LEVELS
    /\ DOMAIN Level(trace, 0).opcodes = {"SLOAD"}
    /\ DOMAIN Level(trace, 1).opcodes = {}
    /\ DOMAIN Level(trace, 2).opcodes = {"TIMESTAMP", "SLOAD"}
    /\ result = OpcodeValidation("paymaster", "TIMESTAMP")

\* The levels whose CREATE2 the rule does not allow
Create2Offenders ==
    {i \in LevelIndices :
        /\ LevelHasCreate2(i)
        /\ ~(i = 0 /\ Level(trace, i).opcodes["CREATE2"] = 1)}

\* C4: without banned opcodes, a trace whose factory level has CREATE2 passes
\* iff the count is 1 and no other level has CREATE2; otherwise it fails with
\* OpcodeValidation{entity of the offending level, CREATE2}
C4_Create2OnlyOnceAtFactory ==
    (OpcodesReturned /\ LevelHasCreate2(0)
        /\ \A i \in LevelIndices : ~LevelHasBanned(i)) =>
        /\ OpcodesPassed
              <=> /\ Level(trace, 0).opcodes["CREATE2"] = 1
                  /\ ~LevelHasCreate2(1) /\ ~LevelHasCreate2(2)
        /\ ~OpcodesPassed
              => /\ pc = "done"
                 /\ \E i \in Create2Offenders :
                      /\ result = OpcodeValidation(LEVEL_TO_ENTITY[i + 1], "CREATE2")
                      /\ \A j \in Create2Offenders : i <= j

\* CREATE2 once at the factory level passed; and so a count of 1 at the
\* factory was rejected only for the CREATE2 of the paymaster level
C4_Witness ==
    /\ OpcodesPassed
    /\ Len(trace.number_levels) = NUMBER_LEVELS
    /\ LevelHasCreate2(0) /\ Level(trace, 0).opcodes["CREATE2"] = 1
    /\ "SLOAD" \in DOMAIN Level(trace, 1).opcodes
    /\ ~LevelHasCreate2(1) /\ ~LevelHasCreate2(2)

-----------------------------------------------------------------------------
(* Properties of the CallStackChecker.                                     *)

\* call_stack has returned: with an error, or Ok(())
CallStackReturned == pc \in {"done", "code_hashes"}
CallStackPassed == pc = "code_hashes" /\ result = None

\* The entries of the reduced call sequence that call validatePaymasterUserOp
\* on the paymaster
PaymasterEntries ==
    {i \in 1..Len(loc.calls) :
        /\ loc.calls[i].method = "validatePaymasterUserOp"
        /\ loc.calls[i].to = stakeInfo[3].address}

NotStakedMessage == "Paymaster that is not staked should not return context"

\* C9 as stated: when some entry of validatePaymasterUserOp on the paymaster
\* returns a non-empty context and verify_stake fails, call_stack fails with
\* CallStackValidation; when its ret does not decode, with
\* UserOperationRejected{"unknown error"}.  Where one entry falls under the
\* first clause and another under the second, either error is accepted.
C9_AnyPaymasterEntryChecked ==
    CallStackReturned =>
        LET unstaked == {i \in PaymasterEntries :
                            loc.calls[i].ret = "context_nonempty" /\ ~world.verify_stake_ok}
            garbled == {i \in PaymasterEntries : loc.calls[i].ret = "undecodable"}
        IN  /\ (unstaked # {} /\ garbled = {})
                  => result = CallStackValidation(NotStakedMessage)
            /\ (garbled # {} /\ unstaked = {})
                  => result = UserOperationRejected("unknown error")
            /\ (garbled # {} /\ unstaked # {})
                  => result \in {CallStackValidation(NotStakedMessage),
                                 UserOperationRejected("unknown error")}

\* C9 amended: the same of the first such entry of the reduced sequence
C9_FirstPaymasterEntryChecked ==
    (CallStackReturned /\ PaymasterEntries # {}) =>
        LET first == CHOOSE i \in PaymasterEntries : \A j \in PaymasterEntries : i <= j
        IN  /\ (loc.calls[first].ret = "context_nonempty" /\ ~world.verify_stake_ok)
                  => /\ pc = "done"
                     /\ result = CallStackValidation(NotStakedMessage)
            /\ loc.calls[first].ret = "undecodable"
                  => /\ pc = "done"
                     /\ result = UserOperationRejected("unknown error")

\* The paymaster returned a context after another call had returned, the
\* reputation refused its stake, and call_stack failed
C9_Witness ==
    /\ pc = "done"
    /\ Len(loc.calls) = 2
    /\ PaymasterEntries = {2}
    /\ loc.calls[2].ret = "context_nonempty"
    /\ ~world.verify_stake_ok
    /\ log = <<Began("call_stack"), Called("verify_stake")>>
    /\ result = CallStackValidation(NotStakedMessage)

-----------------------------------------------------------------------------
(* Properties of the CodeHashChecker.                                      *)

\* Two sequences hold the same elements the same number of times: one is a
\* rearrangement of the other
SameMultiset(s, u) ==
    /\ Len(s) = Len(u)
    /\ \E f \in [1..Len(s) -> 1..Len(s)] :
        /\ \A i, j \in 1..Len(s) : f[i] = f[j] => i = j
        /\ \A i \in 1..Len(s) : s[i] = u[f[i]]

ModifiedCodeMessage == "modified code after 1st simulation"

\* code_hashes has returned after every fetch had succeeded
ComparedAfterFetches ==
    /\ pc = "done"
    /\ Began("code_hashes") \in Range(log)
    /\ result # UnknownError("failed to get code hashes")

\* The mempool answers has_code_hashes with Ok(true), with Ok(false)
MempoolHas == ~world.mempool.broken /\ userOp.hash \in DOMAIN world.mempool.code_hashes
MempoolHasNot == ~world.mempool.broken /\ userOp.hash \notin DOMAIN world.mempool.code_hashes

\* One (address, hash of the code on the chain) for each address the trace
\* lists, level after level
FreshOnChain == HashesOn(world.code, ContractAddresses(trace))

\* C10: after the fetches code_hashes fails with CodeHashesValidation iff the
\* mempool has hashes for the operation and they differ as a multiset from the
\* fresh ones; without stored hashes it returns the fresh ones and does not
\* read the stored ones; on a match it returns the fresh ones
C10_CodeHashesComparedOnSecondSimulation ==
    ComparedAfterFetches =>
        /\ result = CodeHashesValidation(ModifiedCodeMessage)
              <=> /\ MempoolHas
                  /\ ~SameMultiset(FreshOnChain, world.mempool.code_hashes[userOp.hash])
        /\ MempoolHasNot
              => /\ result.kind = "SimulationResult"
                 /\ SameMultiset(result.code_hashes, FreshOnChain)
                 /\ Called("get_code_hashes") \notin Range(log)
        /\ (MempoolHas
              /\ SameMultiset(FreshOnChain, world.mempool.code_hashes[userOp.hash]))
              => /\ result.kind = "SimulationResult"
                 /\ SameMultiset(result.code_hashes, FreshOnChain)

\* A second simulation found the stored hashes of two contracts in another
\* order and returned the fresh ones
C10_Witness ==
    /\ ComparedAfterFetches
    /\ MempoolHas
    /\ Len(FreshOnChain) = 2
    /\ result.kind = "SimulationResult"
    /\ world.mempool.code_hashes[userOp.hash] # result.code_hashes
    /\ Called("get_code_hashes") \in Range(log)

\* How often the trace lists address a: once for each level that has it
TimesListed(a) ==
    Cardinality({n \in 1..Len(trace.number_levels) :
                    a \in trace.number_levels[n].contract_size})

\* The sequence holds, for every address the trace lists, the hash of its
\* code on the chain as often as the trace lists it, and nothing else: a
\* statement of the input alone, whatever the order of the list
HoldsTheListedHashes(hashes) ==
    /\ \A x \in Range(hashes) :
          /\ TimesListed(x.address) > 0
          /\ x.hash = CodeHashOfCode(world.code[x.address])
    /\ \A a \in DOMAIN world.code :
          Occurrences(hashes, CodeHash(a, CodeHashOfCode(world.code[a]))) = TimesListed(a)

\* The verdict of the comparison as the input alone gives it
ExpectedKind ==
    IF world.mempool.broken THEN "UnknownError"
    ELSE IF userOp.hash \in DOMAIN world.mempool.code_hashes
            /\ ~HoldsTheListedHashes(world.mempool.code_hashes[userOp.hash])
    THEN "CodeHashesValidation"
    ELSE "SimulationResult"

\* C12: when every fetch succeeds, the code hashes collected and the verdict
\* of the comparison are those the input gives, whatever the order of the
\* address list and the order in which the tasks complete
C12_OutcomeIndependentOfOrder ==
    ComparedAfterFetches =>
        /\ HoldsTheListedHashes(loc.code_hashes)
        /\ result.kind = ExpectedKind
        /\ result.kind = "SimulationResult" => HoldsTheListedHashes(result.code_hashes)

\* The tasks of two different contracts were spawned in another order than
\* the smallest-first one and completed in another order than they were
\* spawned, and the stored hashes were found equal
C12_Witness ==
    /\ ComparedAfterFetches
    /\ Len(loc.code_hashes) = 2
    /\ loc.tasks[1].address > loc.tasks[2].address
    /\ loc.code_hashes[1].address = loc.tasks[2].address
    /\ loc.code_hashes[1].hash # loc.code_hashes[2].hash
    /\ MempoolHas
    /\ result.kind = "SimulationResult"

\* code_hashes has spawned its tasks
Spawned == loc # None /\ Began("code_hashes") \in Range(log)

\* One (address, keccak256 of its code) for each task dispatched, in the
\* order of the tasks
HashesOfTasks ==
    [i \in DOMAIN loc.tasks |->
        CodeHash(loc.tasks[i].address, CodeHashOfCode(world.code[loc.tasks[i].address]))]

\* The mempool was asked about the operation
MempoolQueried ==
    Called("has_code_hashes") \in Range(log) \/ Called("get_code_hashes") \in Range(log)

\* C13: code_hashes queries the mempool and returns a result only after
\* every task it dispatched has been joined with a hash, and the result then
\* holds one (address, keccak256(code)) for each task; a failed fetch makes
\* it return UnknownError{"failed to get code hashes"} without a code hash
\* and without a query of the mempool
C13_AllFetchesOrNothing ==
    Spawned =>
        /\ (MempoolQueried \/ (pc = "done" /\ result.kind = "SimulationResult"))
              => /\ \A i \in DOMAIN loc.tasks : loc.tasks[i].state = "joined"
                 /\ SameMultiset(loc.code_hashes, HashesOfTasks)
        /\ (pc = "done" /\ result.kind = "SimulationResult")
              => result.code_hashes = loc.code_hashes
        /\ (pc = "done" /\ \E i \in DOMAIN loc.tasks : loc.tasks[i].state # "joined")
              => /\ result = UnknownError("failed to get code hashes")
                 /\ \E i \in DOMAIN loc.tasks : loc.tasks[i].state = "failed"
                 /\ ~MempoolQueried
        /\ (\E i \in DOMAIN loc.tasks : loc.tasks[i].state = "none")
              => pc = "ch_join" /\ result = None /\ ~MempoolQueried

\* A fetch failed after the hash of another contract had been joined: the
\* hash was not returned and the mempool was not asked
C13_Witness ==
    /\ Spawned
    /\ pc = "done"
    /\ Len(loc.code_hashes) = 1
    /\ \E i \in DOMAIN loc.tasks : loc.tasks[i].state = "failed"
    /\ result = UnknownError("failed to get code hashes")
    /\ ~MempoolQueried

\* The run ended while fetches were in flight: the caller dropped it, or a
\* failed fetch ended it
EndedInFlight ==
    /\ Spawned
    /\ \/ pc = "cancelled"
       \/ pc = "done" /\ result = UnknownError("failed to get code hashes")

\* No task of the run can still deliver anything
NoTaskOutstanding ==
    \A i \in DOMAIN loc.tasks :
        loc.tasks[i].state \in {"joined", "failed", "aborted", "dropped"}

\* C14: when simulate_user_operation is cancelled, or ends on a failed fetch,
\* while code-hash fetch tasks are in flight, every outstanding task is
\* aborted, no SimulationResult and no code hashes are returned, the mempool
\* is not asked, and nothing a task does afterwards changes the mempool,
\* the reputation or the chain
C14_CancelledRunAbortsAndSurfacesNothing ==
    /\ [](EndedInFlight =>
            /\ NoTaskOutstanding
            /\ result.kind # "SimulationResult"
            /\ pc = "cancelled" => result = None
            /\ ~MempoolQueried)
    /\ [][EndedInFlight =>
            /\ EndedInFlight'
            /\ result' = result
            /\ world' = world]_vars
    /\ [][/\ world.mempool' = world.mempool
          /\ world.verify_stake_ok' = world.verify_stake_ok
          /\ world.code' = world.code]_vars

\* A cancelled run that had joined the hash of one task, had the answer of
\* another not yet joined and a third still running, which sent its request
\* after the cancellation
C14_Witness ==
    /\ pc = "cancelled"
    /\ Spawned
    /\ Len(loc.code_hashes) > 0
    /\ \E i, j \in DOMAIN loc.tasks :
        /\ i # j
        /\ loc.tasks[i].state = "dropped"
        /\ loc.tasks[j].state = "dropped"
        /\ Len(SelectSeq(log, LAMBDA e : e.op = "get_code")) = Len(loc.tasks)
    /\ result = None

\* The calls of a run to an operation of the mempool or of the reputation
CallsOf(op) == SelectSeq(log, LAMBDA e : e = Called(op))

\* The operations of the mempool and of the reputation that take &mut self
WritingOps ==
    {"add", "set_code_hashes", "remove", "clear", "init", "get", "increment_seen",
     "increment_included", "update_hourly", "add_whitelist", "remove_whitelist",
     "add_blacklist", "remove_blacklist", "update_handle_ops_reverted", "set"}

ListedAddresses == UNION {trace.number_levels[n].contract_size : n \in DOMAIN trace.number_levels}

\* The get_code requests of the run for an address
FetchesOf(a) == SelectSeq(log, LAMBDA e : e = LogEntry("get_code", a))

\* The entries of the returned code hashes for an address
EntriesOf(a) == SelectSeq(result.code_hashes, LAMBDA h : h.address = a)

\* C16: the addresses fetched are the union, as a set, of the keys of
\* contract_size of all levels, and the code hashes returned are a set: each
\* listed address, also one listed at two levels, is fetched once and has
\* exactly one entry
C16_EachListedAddressFetchedOnce ==
    (pc = "done" /\ result.kind = "SimulationResult") =>
        /\ {result.code_hashes[i].address : i \in 1..Len(result.code_hashes)} = ListedAddresses
        /\ \A a \in ListedAddresses :
            /\ Len(FetchesOf(a)) = 1
            /\ Len(EntriesOf(a)) = 1

\* What the code does: an address is fetched, and has an entry, once for
\* each level that lists it
C16_OncePerListingLevel ==
    (pc = "done" /\ result.kind = "SimulationResult") =>
        /\ {result.code_hashes[i].address : i \in 1..Len(result.code_hashes)} = ListedAddresses
        /\ \A a \in ListedAddresses :
            /\ Len(FetchesOf(a)) = TimesListed(a)
            /\ Len(EntriesOf(a)) = TimesListed(a)

\* What a failed EntryPoint call is to be reported as
RejectionOf(resp) ==
    [kind |-> "UserOperationRejected", entity |-> "", opcode |-> "", slot |-> EmptyString,
     message |-> IF resp.kind = "FailedOp" THEN resp.message ELSE "unknown error"]

\* The call of simulate_validation, of simulate_validation_trace, was made
\* and failed
ValidationFailed == Began("simulate_validation") \in Range(log) /\ simResp.kind # "Ok"
TraceFailed == Began("simulate_validation_trace") \in Range(log) /\ traceResp.kind # "Ok"

\* C17: when EntryPoint.simulate_validation or simulate_validation_trace
\* fails, simulate_user_operation returns UserOperationRejected, with the
\* message of the FailedOp, or with "unknown error" for any other error of
\* the EntryPoint, and never another kind of error
C17_EntryPointErrorsRejected ==
    /\ ValidationFailed => pc = "done" /\ result = RejectionOf(simResp)
    /\ TraceFailed => pc = "done" /\ result = RejectionOf(traceResp)

\* simulate_validation succeeded and simulate_validation_trace failed with a
\* FailedOp: the run ended with the message of the FailedOp
C17_Witness ==
    /\ pc = "done"
    /\ simResp.kind = "Ok"
    /\ TraceFailed
    /\ traceResp.kind = "FailedOp"
    /\ result.kind = "UserOperationRejected"
    /\ result.message = "AA23 reverted (or OOG)"

\* The second simulation runs: the caller has stored the code hashes of the
\* first one
InSecondRun == Called("set_code_hashes") \in Range(log)

\* The code hashes the first simulation returned, as the caller stored them
StoredByFirstRun == world.mempool.code_hashes[userOp.hash]

\* C11: after a successful simulation whose code hashes the caller stored,
\* a second simulation of the same input on the same chain never fails with
\* CodeHashesValidation; it ends with the result of the first, its code
\* hashes equal to the stored ones as a multiset, unless a fetch of the
\* second run fails
C11_SecondRunSameCodeHashes ==
    InSecondRun =>
        /\ result.kind # "CodeHashesValidation"
        /\ pc = "done" =>
              \/ result = UnknownError("failed to get code hashes")
              \/ /\ result.kind = "SimulationResult"
                 /\ SameMultiset(result.code_hashes, StoredByFirstRun)
                 /\ result.simulate_validation_result = simResp.result

\* The second simulation joined the fetches of three addresses in another
\* order than the first and returned
C11_Witness ==
    /\ InSecondRun
    /\ pc = "done"
    /\ result.kind = "SimulationResult"
    /\ Len(result.code_hashes) = 3
    /\ result.code_hashes # StoredByFirstRun
    /\ Called("get_code_hashes") \in Range(log)

-----------------------------------------------------------------------------
(* Properties of the StorageAccessChecker.                                 *)

\* associated(owner, s) as the rules define it: the slot is the owner's
\* address string, or its number lies in the window of a slot of the owner
Associated(owner, s) ==
    \/ s = AddrToString(owner)
    \/ /\ Parseable(s)
       /\ \E j \in 1..Len(trace.keccak) :
            /\ owner # ZeroAddress
            /\ \E i \in 1..NUMBER_LEVELS : stakeInfo[i].address = owner
            /\ StartsWithPadded(trace.keccak[j], owner)
            /\ SlotAsNumber(s) >= Keccak256(trace.keccak[j])
            /\ SlotAsNumber(s) < Keccak256(trace.keccak[j]) + SLOT_WINDOW

\* The slot loop has examined a slot, recorded in loc.last
Examined == pc \in {"sa_address", "sa_slot", "call_stack", "done"} /\ loc.last # None

\* storage_access returned Ok(()): the orchestrator stands before call_stack
StorageAdmitted == pc = "call_stack" /\ result = None

\* The slot takes a branch that sets slot_staked at the level of entity e
SetsSlotStaked(e, address, s) ==
    \/ Associated(userOp.sender, s) /\ userOp.init_code.len > 0
    \/ /\ ~Associated(userOp.sender, s)
       /\ (address = e.address \/ Associated(e.address, s))

\* The slot matches none of the three branches at the level of entity e
MatchesNoBranch(e, address, s) ==
    /\ ~Associated(userOp.sender, s)
    /\ address # e.address
    /\ ~Associated(e.address, s)

\* The slots storage_access examines at level index (0-based): address, slot
ExaminedSlots(index) ==
    IF HasLevel(trace, index)
    THEN UNION {{<<a, s>> : s \in Level(trace, index).access[a].reads
                                  \cup Level(trace, index).access[a].writes} :
                a \in {a \in DOMAIN Level(trace, index).access :
                          a # userOp.sender /\ a # EntryPointAddr}}
    ELSE {}

\* C5: if storage_access admits the input, every examined slot is
\* sender-associated, at the entity's own address or entity-associated, and
\* the entity of a slot admitted through a branch that sets slot_staked has a
\* stake above 0
C5_AdmittedSlotsAllowedAndStaked ==
    StorageAdmitted =>
        \A index \in 0..(NUMBER_LEVELS - 1) : \A as \in ExaminedSlots(index) :
            LET e == stakeInfo[index + 1]
            IN  /\ \/ Associated(userOp.sender, as[2])
                   \/ as[1] = e.address
                   \/ Associated(e.address, as[2])
                /\ SetsSlotStaked(e, as[1], as[2]) => e.stake > 0

\* C5 holds of every admitted input whose examined slots are not the empty
\* string
C5_HoldsForNonEmptySlots ==
    (StorageAdmitted
        /\ \A index \in 0..(NUMBER_LEVELS - 1) :
             \A as \in ExaminedSlots(index) : as[2] # EmptyString)
    => C5_AdmittedSlotsAllowedAndStaked

\* C6: a slot that sets slot_staked at a level whose entity has no stake, and
\* a slot that matches no branch, fail with StorageAccessValidation{slot}
C6_UnstakedOrUnmatchedSlotFails ==
    Examined =>
        LET e == stakeInfo[loc.last.index + 1]
            s == loc.last.slot
        IN  /\ (SetsSlotStaked(e, loc.last.address, s) /\ e.stake = 0)
                  => loc.last.out = StorageAccessValidation(s)
            /\ MatchesNoBranch(e, loc.last.address, s)
                  => loc.last.out = StorageAccessValidation(s)

\* C6 holds of every examined slot that is not the empty string
C6_HoldsForNonEmptySlots ==
    (Examined /\ loc.last.slot # EmptyString) => C6_UnstakedOrUnmatchedSlotFails

\* C7: with empty init_code a slot associated with the sender passes the slot
\* rules at every address, level and stake
C7_SenderSlotAllowedWithoutInitCode ==
    (Examined /\ userOp.init_code.len = 0 /\ Associated(userOp.sender, loc.last.slot))
        => loc.last.out = Ok /\ result # StorageAccessValidation(loc.last.slot)

\* A sender-associated slot passed at a foreign address of a level whose
\* entity has no stake, with empty init_code
C7_Witness ==
    /\ Examined
    /\ userOp.init_code.len = 0
    /\ loc.last.slot = HexString(Keccak256(PreSender))
    /\ Associated(userOp.sender, loc.last.slot)
    /\ loc.last.address = OtherAddr
    /\ stakeInfo[loc.last.index + 1].stake = 0
    /\ loc.last.out = Ok

\* C8 as stated: every examined slot that does not parse fails with
\* StorageAccessValidation{slot}
C8_UnparseableSlotAlwaysFails ==
    (Examined /\ ~Parseable(loc.last.slot))
        => loc.last.out = StorageAccessValidation(loc.last.slot)

\* No lookup parses the slot and another rule admits it at the level of e
UnparsedAndAdmitted(e, address, s) ==
    \/ /\ s = AddrToString(userOp.sender)
       /\ (userOp.init_code.len = 0 \/ e.stake > 0)
    \/ /\ s # AddrToString(userOp.sender)
       /\ ~\E j \in 1..Len(trace.keccak) : StartsWithPadded(trace.keccak[j], userOp.sender)
       /\ (address = e.address \/ s = AddrToString(e.address))
       /\ e.stake > 0

\* C8 amended: an examined slot that does not parse fails with
\* StorageAccessValidation{slot} unless no lookup parses it and another rule
\* admits it; then it passes
C8_UnparseableSlotFailsWhenParsed ==
    (Examined /\ ~Parseable(loc.last.slot)) =>
        LET e == stakeInfo[loc.last.index + 1]
            s == loc.last.slot
        IN  IF UnparsedAndAdmitted(e, loc.last.address, s)
            THEN loc.last.out = Ok
            ELSE loc.last.out = StorageAccessValidation(s)

\* A slot that does not parse failed at the staked entity's own address,
\* where only the parse in the sender's lookup rejects it
C8_Witness ==
    /\ Examined
    /\ loc.last.slot = BadString
    /\ loc.last.address = stakeInfo[loc.last.index + 1].address
    /\ stakeInfo[loc.last.index + 1].stake > 0
    /\ userOp.sender \in DOMAIN loc.slots_by_entity
    /\ loc.last.out = StorageAccessValidation(BadString)

\* The run has a trace and the stake of the entities: the checkers of the
\* trace have an input
TraceChecked == Began("forbidden_opcodes") \in Range(log)

\* The rules the input of the run violates, each stated of the input alone:
\* the signature flag is set; a level has a banned opcode or a CREATE2 out
\* of place; a slot storage_access examines is refused; the paymaster's
\* return value is refused; the chain no longer has the code hashes stored
\* for the operation
ViolatesSignature == simResp.kind = "Ok" /\ SignatureCheck(simResp.result)
ViolatesOpcodes == Ok \notin ForbiddenOpcodesResults(trace)
ViolatesStorage ==
    \E index \in 0..(NUMBER_LEVELS - 1) :
        \E as \in ExaminedSlots(index) :
            ExamineSlot(userOp, stakeInfo[index + 1], as[1], as[2],
                        ParseSlots(trace.keccak, stakeInfo)) # Ok
ViolatesCallStack == CallStackOutcome(stakeInfo, trace, world.verify_stake_ok).res # Ok
ViolatesCodeHashes ==
    MempoolHas /\ ~SameMultiset(FreshOnChain, world.mempool.code_hashes[userOp.hash])

\* C18: simulate_user_operation returns the error of the earliest step that
\* fails and never replaces an error: a signature failure wins over every
\* rule of the trace, OpcodeValidation over StorageAccessValidation, that
\* over the error of call_stack, and these over CodeHashesValidation and
\* over the UnknownError of a failed fetch or of the mempool
C18_EarliestErrorWins ==
    /\ []((pc = "done" /\ ViolatesSignature) => result = SignatureValidationErr)
    /\ []((pc = "done" /\ TraceChecked) =>
            /\ ViolatesOpcodes =>
                  result.kind = "OpcodeValidation" /\ result \in ForbiddenOpcodesResults(trace)
            /\ (~ViolatesOpcodes /\ ViolatesStorage) =>
                  result.kind = "StorageAccessValidation"
            /\ (~ViolatesOpcodes /\ ~ViolatesStorage /\ ViolatesCallStack) =>
                  result = CallStackOutcome(stakeInfo, trace, world.verify_stake_ok).res
            /\ result.kind \in {"CodeHashesValidation", "UnknownError"} =>
                  ~ViolatesOpcodes /\ ~ViolatesStorage /\ ~ViolatesCallStack)
    /\ [][result # None => result' = result]_vars

\* A run that ended with OpcodeValidation on an input that also violates the
\* storage rules, the paymaster rule and the code-hash rule
C18_Witness ==
    /\ pc = "done"
    /\ TraceChecked
    /\ result.kind = "OpcodeValidation"
    /\ ViolatesStorage
    /\ ViolatesCallStack
    /\ ViolatesCodeHashes

\* s is the beginning of t
IsPrefix(s, t) == Len(s) <= Len(t) /\ SubSeq(t, 1, Len(s)) = s

ErrorKinds ==
    {"SignatureValidation", "UserOperationRejected", "OpcodeValidation",
     "UserOperationExecution", "StorageAccessValidation", "CallStackValidation",
     "CodeHashesValidation", "UnknownError"}

\* The kinds reported under each code
KindsOfCode(code) ==
    IF code = SIGNATURE_FAILED_ERROR_CODE THEN {"SignatureValidation"}
    ELSE IF code = SIMULATE_VALIDATION_ERROR_CODE THEN {"UserOperationRejected"}
    ELSE IF code = EXECUTION_ERROR_CODE THEN {"UserOperationExecution"}
    ELSE IF code = InternalErrorCode THEN {"UnknownError"}
    ELSE IF code = OPCODE_VALIDATION_ERROR_CODE
    THEN {"OpcodeValidation", "StorageAccessValidation", "CallStackValidation",
          "CodeHashesValidation"}
    ELSE {}

\* C20: the kind of the error determines the JSON-RPC code: SignatureValidation
\* gives SIGNATURE_FAILED_ERROR_CODE, UserOperationRejected
\* SIMULATE_VALIDATION_ERROR_CODE, UserOperationExecution EXECUTION_ERROR_CODE,
\* UnknownError InternalError, and OpcodeValidation, StorageAccessValidation,
\* CallStackValidation and CodeHashesValidation OPCODE_VALIDATION_ERROR_CODE;
\* every one of the eight kinds has a code
C20_KindDeterminesCode ==
    /\ pc = "error" => loc.kind \in ErrorKinds
    /\ pc = "converted" =>
          /\ result.kind = "SimulationError"
          /\ loc.kind \in KindsOfCode(result.code)
    /\ \A k \in ErrorKinds :
          \E e \in SimulateValidationErrors :
              e.kind = k /\ k \in KindsOfCode(SimulationErrorFrom(e).code)

\* A refused storage access has been converted: it carries the code of the
\* opcode validation and names its slot
C20_Witness ==
    /\ pc = "converted"
    /\ loc = StorageAccessValidation(BadString)
    /\ result.code = OPCODE_VALIDATION_ERROR_CODE
    /\ result.message = <<"Storage access validation failed for slot: ", BadString>>

\* The event is a RETURN or a REVERT
IsClose(e) == e.typ = RETURN_OPCODE \/ e.typ = REVERT_OPCODE

\* The positions of the events that are not, among the first n of trace.calls
OpenedUpTo(n) == {k \in 1..n : ~IsClose(trace.calls[k])}

\* C21: at every turn of parse_call_stack the number of events handled that
\* are no RETURN or REVERT is the number of entries emitted plus the depth
\* of the stack; a RETURN or REVERT met on an empty stack emits nothing and
\* leaves the stack and the emitted entries as they are; and the function
\* returns Ok(()) at the end of the events, also with frames left on the
\* stack
C21_ReducerBalance ==
    /\ [](pc \in {"parse_call_stack", "done"} =>
            Cardinality(OpenedUpTo(loc.i)) = Len(loc.st.calls) + Len(loc.st.stack))
    /\ [][(/\ pc = "parse_call_stack"
           /\ loc.i < Len(trace.calls)
           /\ IsClose(trace.calls[loc.i + 1])
           /\ Len(loc.st.stack) = 0) => loc'.st = loc.st /\ loc'.i = loc.i + 1]_vars
    /\ [][(pc = "parse_call_stack" /\ loc.i = Len(trace.calls)) =>
             pc' = "done" /\ result' = Ok /\ loc' = loc]_vars
    /\ [](pc = "done" => result = Ok /\ loc.i = Len(trace.calls))

\* A run that met a RETURN on an empty stack, emitted an entry and returned
\* with a frame left on the stack
C21_Witness ==
    /\ pc = "done"
    /\ result = Ok
    /\ Len(trace.calls) >= 4
    /\ IsClose(trace.calls[1])
    /\ Len(loc.st.calls) = 1
    /\ Len(loc.st.stack) >= 1

\* The turn at hand closes a frame: the next event is a RETURN or a REVERT
\* and the stack has a frame
ClosesFrame ==
    /\ pc = "parse_call_stack"
    /\ loc.i < Len(trace.calls)
    /\ IsClose(trace.calls[loc.i + 1])
    /\ Len(loc.st.stack) > 0

\* The entry the claim describes for a popped frame and a closing event
EntryByCase(top, close) ==
    [typ |-> top.typ, from |-> top.from, to |-> top.to,
     method |-> IF top.typ \in {"CREATE", "CREATE2"} THEN Absent
                ELSE IF top.method = Absent THEN Absent
                ELSE ContractsFunctions(top.method),
     ret |-> IF top.typ \notin {"CREATE", "CREATE2"} /\ close.typ = RETURN_OPCODE
             THEN close.data ELSE Absent,
     rev |-> IF top.typ \notin {"CREATE", "CREATE2"} /\ close.typ = REVERT_OPCODE
             THEN close.data ELSE Absent,
     value |-> IF top.typ \notin {"CREATE", "CREATE2"} /\ close.typ = REVERT_OPCODE
               THEN top.value ELSE Absent]

\* C22: an entry parse_call_stack emits has the type, from and to of the
\* popped frame; for a frame whose type contains CREATE its method, ret, rev
\* and value are absent, closed by RETURN or by REVERT; for another frame
\* closed by REVERT rev is the data of the closing event, value is the value
\* of the frame and ret is absent; closed by RETURN ret is the data of the
\* closing event and rev and value are absent.  No entry has both ret and
\* rev
C22_EntryFieldsByCase ==
    /\ [][ClosesFrame =>
            loc'.st.calls = Append(loc.st.calls,
                                EntryByCase(loc.st.stack[Len(loc.st.stack)],
                                            trace.calls[loc.i + 1]))]_vars
    /\ [](pc \in {"parse_call_stack", "done"} =>
            \A k \in 1..Len(loc.st.calls) :
                loc.st.calls[k].ret = Absent \/ loc.st.calls[k].rev = Absent)

\* A run that emitted the entry of a CREATE2 frame that reverted, without
\* method, rev and value, and the entry of a call with a value that
\* returned, with its ret and without the value
C22_Witness ==
    /\ pc = "done"
    /\ \E a, b \in 1..Len(loc.st.calls) :
        /\ loc.st.calls[a].typ = "CREATE2"
        /\ loc.st.calls[a].method = Absent
        /\ loc.st.calls[a].rev = Absent
        /\ loc.st.calls[a].value = Absent
        /\ loc.st.calls[b].typ = "CALL"
        /\ loc.st.calls[b].method = PAYMASTER_VALIDATION_FUNCTION
        /\ loc.st.calls[b].ret = "context_nonempty"
        /\ loc.st.calls[b].value = Absent
    /\ trace.calls[Len(trace.calls)] = CloseEvent(REVERT_OPCODE, "reason")

\* The largest number of a non-empty set of numbers
Latest(S) == CHOOSE x \in S : \A y \in S : y <= x

\* The positions of the call events among the first n of trace.calls that no
\* RETURN or REVERT among them has closed, when each RETURN or REVERT closes
\* the latest call still open
RECURSIVE StillOpenAfter(_)
StillOpenAfter(n) ==
    IF n = 0 THEN {}
    ELSE LET before == StillOpenAfter(n - 1)
         IN  IF ~IsClose(trace.calls[n]) THEN before \cup {n}
             ELSE IF before = {} THEN {}
             ELSE before \ {Latest(before)}

\* The positions among the first n of the RETURN and REVERT events that close
\* a call, and the position of the call that the event at k closes
ClosingsUpTo(n) == {k \in 1..n : IsClose(trace.calls[k]) /\ StillOpenAfter(k - 1) # {}}
ClosedBy(k) == Latest(StillOpenAfter(k - 1))

\* C23: a RETURN or REVERT closes the most recent call that is still open:
\* the entries emitted are, in the order of the closing events in
\* trace.calls, the entries of the calls they close, so that of two nested
\* calls the inner one's entry comes before the enclosing one's
C23_ClosesLatestOpenCall ==
    pc \in {"parse_call_stack", "done"} =>
        /\ Len(loc.st.calls) = Cardinality(ClosingsUpTo(loc.i))
        /\ \A k \in ClosingsUpTo(loc.i) :
            LET entry == loc.st.calls[Cardinality(ClosingsUpTo(k))]
                call == trace.calls[ClosedBy(k)]
            IN  /\ entry.typ = call.typ
                /\ entry.from = call.from
                /\ entry.to = call.to
        /\ \A k, m \in ClosingsUpTo(loc.i) :
            (ClosedBy(k) < ClosedBy(m) /\ m < k) =>
                Cardinality(ClosingsUpTo(m)) < Cardinality(ClosingsUpTo(k))
        /\ {loc.st.stack[d] : d \in 1..Len(loc.st.stack)}
              = {trace.calls[k] : k \in StillOpenAfter(loc.i)}

\* A call to the paymaster encloses a call to another contract and both have
\* been closed: the entry of the inner call was emitted first
C23_Witness ==
    /\ pc = "done"
    /\ Len(trace.calls) = 4
    /\ ClosingsUpTo(4) = {3, 4}
    /\ ClosedBy(3) = 2
    /\ ClosedBy(4) = 1
    /\ loc.st.calls[1].to = OtherAddr
    /\ loc.st.calls[2].to = PaymasterAddr

\* The levels that break a rule of forbidden_opcodes: a banned opcode, or a
\* CREATE2 the rule does not allow
OpcodeOffenders == {i \in LevelIndices : LevelHasBanned(i)} \cup Create2Offenders

\* C24: forbidden_opcodes takes the levels in the order 0, 1, 2 and at a level
\* the banned opcodes before the CREATE2 rule: the entity of the
\* OpcodeValidation returned is that of the lowest level that breaks a rule,
\* and the opcode is a banned opcode of that level when it has one, CREATE2
\* only when it has none
C24_LowestLevelBannedFirst ==
    (OpcodesReturned /\ OpcodeOffenders # {}) =>
        LET low == CHOOSE i \in OpcodeOffenders : \A j \in OpcodeOffenders : i <= j
        IN  /\ pc = "done"
            /\ result.kind = "OpcodeValidation"
            /\ result.entity = LEVEL_TO_ENTITY[low + 1]
            /\ LevelHasBanned(low) =>
                  result.opcode \in DOMAIN Level(trace, low).opcodes \cap BannedSet
            /\ ~LevelHasBanned(low) => result.opcode = "CREATE2"

\* The factory level is clean, the account level has TIMESTAMP and a CREATE2,
\* the paymaster level has a banned opcode too: the account's TIMESTAMP was
\* reported
C24_Witness ==
    /\ pc = "done"
    /\ Len(trace.number_levels) = NUMBER_LEVELS
    /\ OpcodeOffenders = {1, 2}
    /\ DOMAIN Level(trace, 1).opcodes = {"TIMESTAMP", "CREATE2"}
    /\ LevelHasBanned(2)
    /\ result = OpcodeValidation("account", "TIMESTAMP")

\* C25: call_stack looks at the first entry of validatePaymasterUserOp on the
\* paymaster only: when that entry has no ret, or a ret whose context is
\* empty, call_stack passes and does not call verify_stake, whatever a later
\* such entry returns; and when there is no such entry it passes
C25_OnlyFirstPaymasterEntryDecides ==
    CallStackReturned =>
        /\ PaymasterEntries = {} =>
              CallStackPassed /\ Called("verify_stake") \notin Range(log)
        /\ PaymasterEntries # {} =>
              LET first == CHOOSE i \in PaymasterEntries : \A j \in PaymasterEntries : i <= j
              IN  loc.calls[first].ret \in {Absent, "context_empty"} =>
                      CallStackPassed /\ Called("verify_stake") \notin Range(log)

\* The first call of the paymaster returned an empty context, a later one a
\* context, and the reputation would have refused the stake: call_stack
\* passed without asking it
C25_Witness ==
    /\ CallStackPassed
    /\ PaymasterEntries = {1, 2}
    /\ loc.calls[1].ret = "context_empty"
    /\ loc.calls[2].ret = "context_nonempty"
    /\ ~world.verify_stake_ok
    /\ Called("verify_stake") \notin Range(log)

\* associated_with_slot has returned for a slot that parses and is not the
\* text of the address
ParsedSlotAnswered ==
    /\ pc = "done"
    /\ Parseable(loc.slot)
    /\ loc.slot # AddrToString(loc.address)

\* Some hash of the address in the table has the slot in the 128 slots that
\* begin at it
CoveredByWindow ==
    /\ loc.address \in DOMAIN loc.slots_by_entity
    /\ \E sEnt \in loc.slots_by_entity[loc.address] :
        sEnt <= SlotAsNumber(loc.slot) /\ SlotAsNumber(loc.slot) < sEnt + 128

\* C26: for a slot that parses and is not the text of the owner's address,
\* associated_with_slot answers true exactly when the table has a hash sEnt
\* of the owner with sEnt <= slot < sEnt + 128, and false otherwise: sEnt +
\* 127 is associated, sEnt + 128 and sEnt - 1 are not unless another hash
\* covers them, and an owner without a key is associated with no such slot
C26_AssociatedIffInWindow ==
    ParsedSlotAnswered =>
        /\ result.value \in {"true", "false"}
        /\ result.value = "true" <=> CoveredByWindow

\* C26 holds wherever no hash of the owner is within 128 of the top of U256
C26_HoldsBelowOverflow ==
    (/\ ParsedSlotAnswered
     /\ loc.address \in DOMAIN loc.slots_by_entity
            => \A sEnt \in loc.slots_by_entity[loc.address] : sEnt + 128 < UintLimit)
    => C26_AssociatedIffInWindow

\* storage_access has built its table
TableBuilt == pc \in {"sa_address", "sa_slot", "call_stack", "done"} /\ loc # None

\* h is the hash of a preimage of trace.keccak that starts with 12 zero bytes
\* and the address a, and a is the non-zero address of one of the entities
HashOfEntityPreimage(a, h) ==
    /\ a # 0
    /\ \E i \in 1..3 : stakeInfo[i].address = a
    /\ \E j \in 1..Len(trace.keccak) :
        trace.keccak[j].pad = a /\ h = Keccak256(trace.keccak[j])

\* C27: h is in slots_by_entity[a] exactly when a is the non-zero address of
\* one of the three entities and h is the keccak256 of a preimage of
\* trace.keccak that starts with 12 zero bytes and a; the zero address is
\* never a key; and the table storage_access built before its first slot
\* stays as it is while it iterates
C27_SlotTableOfEntityPreimages ==
    /\ [](TableBuilt =>
            /\ 0 \notin DOMAIN loc.slots_by_entity
            /\ \A a \in DOMAIN loc.slots_by_entity
                        \cup {stakeInfo[i].address : i \in 1..3}
                        \cup {trace.keccak[j].pad : j \in 1..Len(trace.keccak)} :
                \A h \in {Keccak256(trace.keccak[j]) : j \in 1..Len(trace.keccak)}
                            \cup UNION {loc.slots_by_entity[b] :
                                           b \in DOMAIN loc.slots_by_entity} :
                    (a \in DOMAIN loc.slots_by_entity /\ h \in loc.slots_by_entity[a])
                        <=> HashOfEntityPreimage(a, h)
            /\ loc.slots_by_entity = ParseSlots(trace.keccak, stakeInfo))
    /\ [][TableBuilt => loc'.slots_by_entity = loc.slots_by_entity]_vars
    /\ [](loc # None => TableBuilt)

\* The factory is absent, a preimage starts with the padded zero address and
\* others with the factory's and the paymaster's: after a slot was examined
\* the table has the paymaster's hash only
C27_Witness ==
    /\ TableBuilt
    /\ loc.last # None
    /\ stakeInfo[1].address = 0
    /\ trace.keccak = <<PreZero, PreFactory, PrePaymaster>>
    /\ DOMAIN loc.slots_by_entity = {PaymasterAddr}
    /\ loc.slots_by_entity[PaymasterAddr] = {Keccak256(PrePaymaster)}

====
